---- MODULE Spec2Model ----
(***************************************************************************)
(* Model of the adaptive questionnaire engine: the immutable State of      *)
(* optimizer.py, the skip-condition evaluator of Question, the bounded     *)
(* fixed-point rule evaluator of DecisionTreeOptimizer and the runtime     *)
(* orchestration of OptimizedDecisionEngine (decision_engine.py).          *)
(***************************************************************************)
EXTENDS Integers, Sequences, FiniteSets, TLC

VARIABLES engine, calls, prev, resets, arg, results, tc, pos, rules, pair,
          sessions

vars ==
  <<engine, calls, prev, resets, arg, results, tc, pos, rules, pair,
               sessions>>

(***************************************************************************)
(* Python values.  An answer value is None, a string or a list of strings. *)
(***************************************************************************)
NoneVal == [kind |-> "None", items |-> <<>>]

Str(s) == [kind |-> "str", items |-> <<s>>]

List(seq) == [kind |-> "list", items |-> seq]

\* Python truthiness of an answer value: None and [] are falsy, every
\* option token is a non-empty string.
Truthy(v) == \/ v.kind = "str"
             \/ (v.kind = "list" /\ Len(v.items) > 0)

\* The tokens whose text contains "annex_i": both annex_i_section_* and all
\* annex_iii_* option values of Q6.
AnnexTokens ==
  {"annex_i_section_a", "annex_i_section_b", "annex_iii_biometrics",
   "annex_iii_critical_infra", "annex_iii_education", "annex_iii_employment",
   "annex_iii_essential_services", "annex_iii_law_enforcement",
   "annex_iii_migration", "annex_iii_justice"}

\* needle in tok, Python's substring test on two strings, for the needles the
\* engine uses and the option tokens of the question set.
SubstringOf(needle, tok) ==
  \/ needle = tok
  \/ (needle = "emotion_recognition" /\ tok = "emotion_recognition_workplace")
  \/ (needle = "annex_i" /\ tok \in AnnexTokens)

\* needle in str(v): str(None) is 'None', str of a string is the string, str
\* of a list is the quoted items separated by ', '; no needle holds a quote
\* or a comma, so it occurs in str(v) exactly when it occurs in an item.
InStr(needle, v) ==
  \E i \in 1..Len(v.items) : SubstringOf(needle, v.items[i])

(***************************************************************************)
(* Names of the derived facts, in Python's string order (the order that    *)
(* sorted() gives them).                                                   *)
(***************************************************************************)
FlagNames ==
  {"flag_becomes_provider", "flag_excluded", "flag_gpai",
   "flag_gpai_systemic_risk", "flag_high_risk", "flag_is_deployer",
   "flag_is_provider", "flag_out_of_scope", "flag_prohibited"}

ObligationNames ==
  {"obligation_ai_literacy", "obligation_deployer_high_risk",
   "obligation_fundamental_rights_assessment", "obligation_gpai_base",
   "obligation_gpai_systemic", "obligation_handover",
   "obligation_provider_high_risk",
   "obligation_transparency_content_resemblance",
   "obligation_transparency_emotion_biometric",
   "obligation_transparency_natural_persons",
   "obligation_transparency_synthetic_content"}

NameOrder ==
  <<"flag_becomes_provider", "flag_excluded", "flag_gpai",
    "flag_gpai_systemic_risk", "flag_high_risk", "flag_is_deployer",
    "flag_is_provider", "flag_out_of_scope", "flag_prohibited",
    "obligation_ai_literacy", "obligation_deployer_high_risk",
    "obligation_fundamental_rights_assessment", "obligation_gpai_base",
    "obligation_gpai_systemic", "obligation_handover",
    "obligation_provider_high_risk",
    "obligation_transparency_content_resemblance",
    "obligation_transparency_emotion_biometric",
    "obligation_transparency_natural_persons",
    "obligation_transparency_synthetic_content">>

\* sorted(names): the names of S as a tuple in ascending string order.
Sorted(S) == LET In(n) == n \in S IN SelectSeq(NameOrder, In)

(***************************************************************************)
(* State: answers (tuple of Answer), flags (tuple of (name, value) pairs)  *)
(* and obligations (tuple of names).                                       *)
(***************************************************************************)
Answer(q, v) == [question_id |-> q, value |-> v]

State(a, f, o) == [answers |-> a, flags |-> f, obligations |-> o]

EmptyState == State(<<>>, <<>>, <<>>)

with_answer(s, answer) ==
  State(Append(s.answers, answer), s.flags, s.obligations)

\* with_flags that builds the new State from the answers and the new flags
\* alone.
with_flags_dropping_obligations(s, new_flags) ==
  LET keys == Sorted(DOMAIN new_flags)
  IN State(s.answers,
           [i \in 1..Len(keys) |-> <<keys[i], new_flags[keys[i]]>>],
           <<>>)

\* tuple(sorted(new_flags.items())): the dict's items ordered by key.
with_flags(s, new_flags) ==
  LET keys == Sorted(DOMAIN new_flags)
  IN State(s.answers,
           [i \in 1..Len(keys) |-> <<keys[i], new_flags[keys[i]]>>],
           s.obligations)

with_obligations(s, new_obligations) ==
  State(s.answers, s.flags, Sorted(new_obligations))

\* get_answer that returns the value of the latest Answer recorded for the
\* question.
get_answer_latest(s, question_id) ==
  LET Match(a) == a.question_id = question_id
      hits == SelectSeq(s.answers, Match)
  IN IF hits = <<>> THEN NoneVal ELSE hits[Len(hits)].value

\* The value of the first Answer recorded for the question, else None.
get_answer(s, question_id) ==
  LET Match(a) == a.question_id = question_id
      hits == SelectSeq(s.answers, Match)
  IN IF hits = <<>> THEN NoneVal ELSE hits[1].value

\* The value of the first pair with that name, else False.
get_flag(s, flag_name) ==
  LET Match(f) == f[1] = flag_name
      hits == SelectSeq(s.flags, Match)
  IN IF hits = <<>> THEN FALSE ELSE hits[1][2]

\* dict(self.flags): the last pair of a name wins.
get_flags_dict(s) ==
  [k \in {s.flags[i][1] : i \in 1..Len(s.flags)} |->
     LET Match(f) == f[1] = k
         hits == SelectSeq(s.flags, Match)
     IN hits[Len(hits)][2]]

get_obligations_set(s) == {s.obligations[i] : i \in 1..Len(s.obligations)}

(***************************************************************************)
(* Question: the skip conditions of the question set and their evaluator.  *)
(* A condition string is kept as its whitespace-separated words.           *)
(***************************************************************************)
question_order ==
  <<"Q1", "Q2", "Q3", "Q4", "Q5", "Q5A", "Q6", "Q6A", "Q6B", "Q7", "Q8", "Q9">>

QuestionIds == {question_order[i] : i \in 1..Len(question_order)}

skip_conditions(q_id) ==
  CASE q_id = "Q5A" -> << <<"Q5_answer", "!=", "yes_gpai">> >>
    [] q_id = "Q6A" -> << <<"Q6_answer", "not", "in",
                            "[annex_i_section_a,", "annex_i_section_b]">> >>
    [] q_id = "Q6B" -> << <<"Q6_answer", "==", "none">> >>
    [] q_id = "Q8"  -> << <<"flag_is_provider", "==", "True">> >>
    [] q_id = "Q9"  -> << <<"flag_high_risk", "==", "False">>,
                          <<"flag_is_deployer", "==", "False">> >>
    [] OTHER -> <<>>

\* condition.split("=="): the words before and after each "==" word.  None
\* of the other words of the configured conditions holds the text "==".
RECURSIVE SplitEq(_)
SplitEq(condition) ==
  LET eqs == {i \in 1..Len(condition) : condition[i] = "=="}
  IN IF eqs = {} THEN <<condition>>
     ELSE LET i == CHOOSE k \in eqs : \A j \in eqs : k <= j
          IN <<SubSeq(condition, 1, i - 1)>>
               \o SplitEq(SubSeq(condition, i + 1, Len(condition)))

\* part.strip(): the text of a part of one word is that word.
Strip(part) == IF Len(part) = 1 THEN part[1] ELSE "<several words>"

evaluate_condition(condition, s) ==
  LET parts == SplitEq(condition)
  IN IF Len(parts) = 2
     THEN LET flag_name == Strip(parts[1])
              expected == (Strip(parts[2]) = "True")
          IN get_flag(s, flag_name) = expected
     ELSE FALSE

\* First component of is_skippable's result: some condition evaluates true.
is_skippable(q_id, s) ==
  \E i \in 1..Len(skip_conditions(q_id)) :
     evaluate_condition(skip_conditions(q_id)[i], s)

\* Second component: the first condition that matched, else None.
skip_reason(q_id, s) ==
  LET conds == skip_conditions(q_id)
      hits == {i \in 1..Len(conds) : evaluate_condition(conds[i], s)}
  IN IF hits = {} THEN <<>>
     ELSE conds[CHOOSE i \in hits : \A j \in hits : i <= j]

(***************************************************************************)
(* The inference rule catalogue, in registration order.                    *)
(***************************************************************************)
inference_rules ==
  << [name |-> "provider_ai_literacy",
      effects |-> << <<"flag_is_provider", TRUE>>,
                    <<"obligation_ai_literacy", TRUE>> >>],
     [name |-> "deployer_ai_literacy",
      effects |-> << <<"flag_is_deployer", TRUE>>,
                    <<"obligation_ai_literacy", TRUE>> >>],
     [name |-> "out_of_scope", effects |-> << <<"flag_out_of_scope", TRUE>> >>],
     [name |-> "excluded", effects |-> << <<"flag_excluded", TRUE>> >>],
     [name |-> "prohibited", effects |-> << <<"flag_prohibited", TRUE>> >>],
     [name |-> "gpai_base",
      effects |-> << <<"flag_gpai", TRUE>>,
                    <<"obligation_gpai_base", TRUE>> >>],
     [name |-> "gpai_systemic",
      effects |-> << <<"flag_gpai_systemic_risk", TRUE>>,
                    <<"obligation_gpai_systemic", TRUE>> >>],
     [name |-> "high_risk_annex_i", effects |-> << <<"flag_high_risk", TRUE>> >>],
     [name |-> "high_risk_annex_iii", effects |-> << <<"flag_high_risk", TRUE>> >>],
     [name |-> "provider_high_risk_obligations",
      effects |-> << <<"obligation_provider_high_risk", TRUE>> >>],
     [name |-> "deployer_high_risk_obligations",
      effects |-> << <<"obligation_deployer_high_risk", TRUE>> >>],
     [name |-> "becomes_provider",
      effects |-> << <<"flag_becomes_provider", TRUE>>,
                    <<"flag_is_provider", TRUE>>,
                    <<"obligation_handover", TRUE>> >>],
     [name |-> "fundamental_rights",
      effects |-> << <<"obligation_fundamental_rights_assessment", TRUE>> >>],
     [name |-> "transparency_natural",
      effects |-> << <<"obligation_transparency_natural_persons", TRUE>> >>],
     [name |-> "transparency_synthetic",
      effects |-> << <<"obligation_transparency_synthetic_content", TRUE>> >>],
     [name |-> "transparency_emotion",
      effects |-> << <<"obligation_transparency_emotion_biometric", TRUE>> >>],
     [name |-> "transparency_deepfake",
      effects |-> << <<"obligation_transparency_content_resemblance", TRUE>> >>] >>

\* The predicates of the rules (the lambdas), by rule name.
excluded_condition(s) ==
  Truthy(get_answer(s, "Q3")) /\ get_answer(s, "Q3") # Str("none")

prohibited_condition(s) ==
  Truthy(get_answer(s, "Q4")) /\ get_answer(s, "Q4") # Str("none")

becomes_provider_condition(s) ==
  Truthy(get_answer(s, "Q8")) /\ get_answer(s, "Q8") # Str("none")

\* The out_of_scope predicate testing for the other option of Q1.
out_of_scope_condition_other_option(s) ==
  get_answer(s, "Q1") = Str("has_eu_connection")

out_of_scope_condition(s) == get_answer(s, "Q1") = Str("no_eu_connection")

\* The high_risk_annex_i predicate reading the Q6 category instead of Q6A.
high_risk_annex_i_condition_by_category(s) ==
  InStr("annex_i", get_answer(s, "Q6"))

high_risk_annex_i_condition(s) == get_answer(s, "Q6A") = Str("yes_required")

\* The provider_high_risk_obligations predicate without the role test.
provider_high_risk_condition_any_role(s) == get_flag(s, "flag_high_risk")

provider_high_risk_condition(s) ==
  get_flag(s, "flag_high_risk") /\ get_flag(s, "flag_is_provider")

\* The fundamental_rights predicate without the deployer test.
fundamental_rights_condition_any_role(s) ==
  /\ get_answer(s, "Q9") = Str("yes_public")
  /\ get_flag(s, "flag_high_risk")

fundamental_rights_condition(s) ==
  /\ get_answer(s, "Q9") = Str("yes_public")
  /\ get_flag(s, "flag_high_risk")
  /\ get_flag(s, "flag_is_deployer")

condition(name, s) ==
  CASE name = "provider_ai_literacy" -> InStr("provider", get_answer(s, "Q2"))
    [] name = "deployer_ai_literacy" -> InStr("deployer", get_answer(s, "Q2"))
    [] name = "out_of_scope" -> out_of_scope_condition(s)
    [] name = "excluded" -> excluded_condition(s)
    [] name = "prohibited" -> prohibited_condition(s)
    [] name = "gpai_base" -> get_answer(s, "Q5") = Str("yes_gpai")
    [] name = "gpai_systemic" -> get_answer(s, "Q5A") = Str("yes_systemic")
    [] name = "high_risk_annex_i" -> high_risk_annex_i_condition(s)
    [] name = "high_risk_annex_iii" ->
         get_answer(s, "Q6B") = Str("yes_significant")
    [] name = "provider_high_risk_obligations" ->
         provider_high_risk_condition(s)
    [] name = "deployer_high_risk_obligations" ->
         get_flag(s, "flag_high_risk") /\ get_flag(s, "flag_is_deployer")
    [] name = "becomes_provider" -> becomes_provider_condition(s)
    [] name = "fundamental_rights" -> fundamental_rights_condition(s)
    [] name = "transparency_natural" ->
         InStr("interact_with_people", get_answer(s, "Q7"))
    [] name = "transparency_synthetic" ->
         InStr("generate_synthetic_content", get_answer(s, "Q7"))
    [] name = "transparency_emotion" ->
         InStr("emotion_recognition", get_answer(s, "Q7"))
    [] name = "transparency_deepfake" ->
         \/ InStr("deepfake", get_answer(s, "Q7"))
         \/ InStr("text_manipulation_public", get_answer(s, "Q7"))

(***************************************************************************)
(* apply_inference_rules: the bounded fixed-point loop over the rules       *)
(* registered with add_inference_rule.                                     *)
(***************************************************************************)
max_iterations == 10

\* The predicates of the rules registered directly with the optimizer: one
\* that always holds and two that read a flag of the working state.
ProbeNames == {"always", "if_high_risk", "unless_high_risk"}

probe_condition(name, s) ==
  CASE name = "always" -> TRUE
    [] name = "if_high_risk" -> get_flag(s, "flag_high_risk")
    [] name = "unless_high_risk" -> ~get_flag(s, "flag_high_risk")

\* condition(current_state) for a registered rule.
rule_condition(rule, s) ==
  IF rule.name \in ProbeNames THEN probe_condition(rule.name, s)
  ELSE condition(rule.name, s)

\* The loop over effects.items() of one firing rule; w carries new_flags,
\* new_obligations and changed.  A key that starts with neither flag_ nor
\* obligation_ is passed over.
RECURSIVE apply_effects(_, _, _)
apply_effects(effects, i, w) ==
  IF i > Len(effects) THEN w
  ELSE LET key == effects[i][1]
           value == effects[i][2]
       IN IF key \in FlagNames
          THEN IF key \notin DOMAIN w.new_flags \/ w.new_flags[key] # value
               THEN apply_effects(effects, i + 1,
                      [w EXCEPT !.new_flags =
                           [k \in DOMAIN w.new_flags \cup {key} |->
                              IF k = key THEN value ELSE w.new_flags[k]],
                         !.changed = TRUE])
               ELSE apply_effects(effects, i + 1, w)
          ELSE IF key \in ObligationNames
               THEN IF value /\ key \notin w.new_obligations
                    THEN apply_effects(effects, i + 1,
                           [w EXCEPT !.new_obligations = @ \cup {key},
                                     !.changed = TRUE])
                    ELSE apply_effects(effects, i + 1, w)
               ELSE apply_effects(effects, i + 1, w)

\* fire_rule with new_obligations started from an empty set instead of the
\* obligations of the working state.
fire_rule_fresh_obligations(rule, c) ==
  LET w == apply_effects(rule.effects, 1,
             [new_flags |-> get_flags_dict(c.current_state),
              new_obligations |-> {},
              changed |-> c.changed])
  IN [current_state |->
        with_obligations(with_flags(c.current_state, w.new_flags),
                         w.new_obligations),
      changed |-> w.changed]

\* fire_rule with new_flags started from an empty dict instead of the flags
\* of the working state.
fire_rule_fresh_flags(rule, c) ==
  LET w == apply_effects(rule.effects, 1,
             [new_flags |-> <<>>,
              new_obligations |-> get_obligations_set(c.current_state),
              changed |-> c.changed])
  IN [current_state |->
        with_obligations(with_flags(c.current_state, w.new_flags),
                         w.new_obligations),
      changed |-> w.changed]

\* fire_rule that applies the first effect of the rule only.
fire_rule_first_effect_only(rule, c) ==
  LET w == apply_effects(SubSeq(rule.effects, 1, 1), 1,
             [new_flags |-> get_flags_dict(c.current_state),
              new_obligations |-> get_obligations_set(c.current_state),
              changed |-> c.changed])
  IN [current_state |->
        with_obligations(with_flags(c.current_state, w.new_flags),
                         w.new_obligations),
      changed |-> w.changed]

\* The body of the if for a rule whose condition holds: c carries
\* current_state and changed.
fire_rule(rule, c) ==
  LET w == apply_effects(rule.effects, 1,
             [new_flags |-> get_flags_dict(c.current_state),
              new_obligations |-> get_obligations_set(c.current_state),
              changed |-> c.changed])
  IN [current_state |->
        with_obligations(with_flags(c.current_state, w.new_flags),
                         w.new_obligations),
      changed |-> w.changed]

\* One pass in which every condition is evaluated against snapshot, the
\* state the pass started from, instead of the working state.
RECURSIVE rules_pass_from_snapshot(_, _, _, _)
rules_pass_from_snapshot(rs, i, c, snapshot) ==
  IF i > Len(rs) THEN c
  ELSE IF rule_condition(rs[i], snapshot)
       THEN rules_pass_from_snapshot(rs, i + 1, fire_rule(rs[i], c), snapshot)
       ELSE rules_pass_from_snapshot(rs, i + 1, c, snapshot)

rules_pass_snapshot(rs, i, c) ==
  rules_pass_from_snapshot(rs, i, c, c.current_state)

\* One pass of the for loop over the rules rs, from rule i on: every rule,
\* in registration order, against the working state.
RECURSIVE rules_pass(_, _, _)
rules_pass(rs, i, c) ==
  IF i > Len(rs) THEN c
  ELSE IF rule_condition(rs[i], c.current_state)
       THEN rules_pass(rs, i + 1, fire_rule(rs[i], c))
       ELSE rules_pass(rs, i + 1, c)

\* inference_loop that makes one pass and never repeats it.
inference_loop_one_pass(rs, c, iteration) ==
  LET d == rules_pass(rs, 1, [current_state |-> c.current_state,
                              changed |-> FALSE])
  IN [current_state |-> d.current_state, changed |-> d.changed,
      iteration |-> iteration + 1]

\* inference_loop that repeats the pass until the cap whether or not the
\* last pass changed anything.
RECURSIVE inference_loop_no_change_test(_, _, _)
inference_loop_no_change_test(rs, c, iteration) ==
  IF iteration < max_iterations
  THEN inference_loop_no_change_test(rs,
         rules_pass(rs, 1, [current_state |-> c.current_state,
                            changed |-> FALSE]),
         iteration + 1)
  ELSE [current_state |-> c.current_state, changed |-> c.changed,
        iteration |-> iteration]

\* The while loop; c carries current_state and changed.  Its result also
\* reports the number of passes made.
RECURSIVE inference_loop(_, _, _)
inference_loop(rs, c, iteration) ==
  IF c.changed /\ iteration < max_iterations
  THEN inference_loop(rs,
         rules_pass(rs, 1, [current_state |-> c.current_state,
                            changed |-> FALSE]),
         iteration + 1)
  ELSE [current_state |-> c.current_state, changed |-> c.changed,
        iteration |-> iteration]

\* apply_inference_rules of an optimizer whose registered rules are rs.
run_inference(rs, s) ==
  inference_loop(rs, [current_state |-> s, changed |-> TRUE], 0)

\* apply_inference_rules of the engine's optimizer, which holds the
\* catalogue.
apply_inference_rules(s) == run_inference(inference_rules, s).current_state

(***************************************************************************)
(* OptimizedDecisionEngine: the variable engine is the instance, with its   *)
(* two fields current_state and path.                                      *)
(***************************************************************************)
\* asks that treats Q9 as an unconditional question: neither its skip
\* conditions nor its routing override are consulted.
asks_q9_unguarded(s, q_id) ==
  /\ get_answer(s, q_id) = NoneVal
  /\ (q_id # "Q9" => ~is_skippable(q_id, s))
  /\ (q_id = "Q5A" => get_answer(s, "Q5") = Str("yes_gpai"))
  /\ (q_id = "Q6A" => /\ Truthy(get_answer(s, "Q6"))
                      /\ InStr("annex_i", get_answer(s, "Q6")))
  /\ (q_id = "Q6B" => /\ Truthy(get_answer(s, "Q6"))
                      /\ get_answer(s, "Q6") # Str("none"))
  /\ (q_id = "Q8" => ~get_flag(s, "flag_is_provider"))

\* asks without the test that the question is unanswered.
asks_answered_again(s, q_id) ==
  /\ ~is_skippable(q_id, s)
  /\ (q_id = "Q5A" => get_answer(s, "Q5") = Str("yes_gpai"))
  /\ (q_id = "Q6A" => /\ Truthy(get_answer(s, "Q6"))
                      /\ InStr("annex_i", get_answer(s, "Q6")))
  /\ (q_id = "Q6B" => /\ Truthy(get_answer(s, "Q6"))
                      /\ get_answer(s, "Q6") # Str("none"))
  /\ (q_id = "Q8" => ~get_flag(s, "flag_is_provider"))
  /\ (q_id = "Q9" => /\ get_flag(s, "flag_high_risk")
                     /\ get_flag(s, "flag_is_deployer"))

\* The checks of one iteration of get_next_question's loop: the question is
\* unanswered, not skippable and passes its routing override.
asks(s, q_id) ==
  /\ get_answer(s, q_id) = NoneVal
  /\ ~is_skippable(q_id, s)
  /\ (q_id = "Q5A" => get_answer(s, "Q5") = Str("yes_gpai"))
  /\ (q_id = "Q6A" => /\ Truthy(get_answer(s, "Q6"))
                      /\ InStr("annex_i", get_answer(s, "Q6")))
  /\ (q_id = "Q6B" => /\ Truthy(get_answer(s, "Q6"))
                      /\ get_answer(s, "Q6") # Str("none"))
  /\ (q_id = "Q8" => ~get_flag(s, "flag_is_provider"))
  /\ (q_id = "Q9" => /\ get_flag(s, "flag_high_risk")
                     /\ get_flag(s, "flag_is_deployer"))

\* get_next_question without the test of the prohibited flag.
get_next_question_no_prohibited_test(s) ==
  IF get_flag(s, "flag_out_of_scope") THEN "None"
  ELSE IF get_flag(s, "flag_excluded") THEN "None"
  ELSE LET hits == {i \in 1..Len(question_order) : asks(s, question_order[i])}
       IN IF hits = {} THEN "None"
          ELSE question_order[CHOOSE i \in hits : \A j \in hits : i <= j]

\* The id of the question get_next_question returns, "None" for None.
get_next_question(s) ==
  IF get_flag(s, "flag_out_of_scope") THEN "None"
  ELSE IF get_flag(s, "flag_excluded") THEN "None"
  ELSE IF get_flag(s, "flag_prohibited") THEN "None"
  ELSE LET hits == {i \in 1..Len(question_order) : asks(s, question_order[i])}
       IN IF hits = {} THEN "None"
          ELSE question_order[CHOOSE i \in hits : \A j \in hits : i <= j]

\* flags.get(name): the dict's value, None (falsy) when the key is absent.
flags_get(flags, name) == IF name \in DOMAIN flags THEN flags[name] ELSE FALSE

\* classify with the out-of-scope flag tested last.
classify_out_of_scope_last(flags) ==
  IF flags_get(flags, "flag_excluded") THEN "EXCLUDED"
  ELSE IF flags_get(flags, "flag_prohibited") THEN "PROHIBITED"
  ELSE IF flags_get(flags, "flag_out_of_scope") THEN "OUT_OF_SCOPE"
  ELSE "COMPLIANCE_REQUIRED"

\* classify with the prohibited flag tested before the excluded flag.
classify_prohibited_first(flags) ==
  IF flags_get(flags, "flag_out_of_scope") THEN "OUT_OF_SCOPE"
  ELSE IF flags_get(flags, "flag_prohibited") THEN "PROHIBITED"
  ELSE IF flags_get(flags, "flag_excluded") THEN "EXCLUDED"
  ELSE "COMPLIANCE_REQUIRED"

classify(flags) ==
  IF flags_get(flags, "flag_out_of_scope") THEN "OUT_OF_SCOPE"
  ELSE IF flags_get(flags, "flag_excluded") THEN "EXCLUDED"
  ELSE IF flags_get(flags, "flag_prohibited") THEN "PROHIBITED"
  ELSE "COMPLIANCE_REQUIRED"

\* The explanation template of a classification; n is the obligation count
\* that only the COMPLIANCE_REQUIRED text embeds.
explanation(result, n) ==
  CASE result = "OUT_OF_SCOPE" ->
         <<"System is outside the scope of the EU AI Act">>
    [] result = "EXCLUDED" ->
         <<"System is excluded from EU AI Act requirements">>
    [] result = "PROHIBITED" ->
         <<"System performs prohibited functions and cannot be placed on EU market">>
    [] OTHER -> <<"System requires compliance with ", n, " obligations">>

get_result(s, p) ==
  LET flags == get_flags_dict(s)
      obligations == get_obligations_set(s)
      result == classify(flags)
  IN [result |-> result,
      flags |-> flags,
      obligations |-> obligations,
      questions_asked |-> Len(p),
      path_taken |-> p,
      explanation |-> explanation(result, Cardinality(obligations))]

\* answer_question that drops a call whose question id is not in the
\* question set.
answer_question_ignoring_unknown(e, question_id, answer_value) ==
  IF question_id \notin QuestionIds THEN e
  ELSE [current_state |->
          apply_inference_rules(
            with_answer(e.current_state, Answer(question_id, answer_value))),
        path |-> Append(e.path, question_id)]

\* answer_question that accepts an answer only for the question that
\* get_next_question returns.
answer_question_only_expected(e, question_id, answer_value) ==
  IF question_id # get_next_question(e.current_state) THEN e
  ELSE [current_state |->
          apply_inference_rules(
            with_answer(e.current_state, Answer(question_id, answer_value))),
        path |-> Append(e.path, question_id)]

\* answer_question that applies the inference rules before it records the
\* answer.
answer_question_infer_first(e, question_id, answer_value) ==
  [current_state |->
     with_answer(apply_inference_rules(e.current_state),
                 Answer(question_id, answer_value)),
   path |-> Append(e.path, question_id)]

\* answer_question as a function of the engine's fields.
answer_question(e, question_id, answer_value) ==
  [current_state |->
     apply_inference_rules(
       with_answer(e.current_state, Answer(question_id, answer_value))),
   path |-> Append(e.path, question_id)]

\* The fields after __init__; reset assigns the same two values.
NewEngine == [current_state |-> EmptyState, path |-> <<>>]

\* reset that clears the path log and keeps the state.
reset_keeps_state(e) == [current_state |-> e.current_state, path |-> <<>>]

\* reset that renews the state and keeps the path log.
reset_keeps_path(e) == [current_state |-> EmptyState, path |-> e.path]

reset(e) == [current_state |-> EmptyState, path |-> <<>>]

(***************************************************************************)
(* Inputs.  answer_question takes any question id and any value; the       *)
(* values below are option tokens of the question set, given as a string   *)
(* or as a list as the test cases give them, and one id outside the set.   *)
(***************************************************************************)
MaxAnswers == 2

MaxResets == 1

UnknownId == "QX"

AnswerValues(q_id) ==
  CASE q_id = "Q1" -> {Str("no_eu_connection"), Str("has_eu_connection")}
    [] q_id = "Q2" -> {List(<<"provider">>), List(<<"deployer">>)}
    [] q_id = "Q3" -> {Str("none"), List(<<"none">>), List(<<>>),
                       List(<<"research_only">>)}
    [] q_id = "Q4" -> {Str("none"), List(<<"none">>),
                       List(<<"social_scoring_public">>)}
    [] q_id = "Q5" -> {Str("yes_gpai"), Str("no_gpai")}
    [] q_id = "Q5A" -> {Str("yes_systemic"), Str("no_systemic")}
    [] q_id = "Q6" -> {List(<<"none">>), List(<<"annex_i_section_a">>),
                       List(<<"annex_iii_biometrics">>)}
    [] q_id = "Q6A" -> {Str("yes_required"), Str("no_or_opt_out")}
    [] q_id = "Q6B" -> {Str("yes_significant"), Str("no_significant")}
    [] q_id = "Q7" -> {List(<<"none">>), List(<<"interact_with_people">>),
                       List(<<"emotion_recognition", "deepfake">>)}
    [] q_id = "Q8" -> {Str("none"), List(<<"none">>),
                       List(<<"substantial_modification">>)}
    [] q_id = "Q9" -> {Str("yes_public"), Str("no_private")}
    [] OTHER -> {Str("anything")}

\* The engine a fresh OptimizedDecisionEngine becomes under a sequence of
\* answer_question calls.
RECURSIVE Replay(_)
Replay(cs) ==
  IF cs = <<>> THEN NewEngine
  ELSE LET last == cs[Len(cs)]
       IN answer_question(Replay(SubSeq(cs, 1, Len(cs) - 1)),
                          last.question_id, last.value)

(***************************************************************************)
(* Spec: one engine under any sequence of answer_question and reset calls. *)
(* calls lists the answer_question calls since construction or the last    *)
(* reset, prev holds the engine's fields as they were before the latest of *)
(* these calls, resets counts the reset calls.                             *)
(***************************************************************************)
Init ==
  /\ engine = NewEngine
  /\ calls = <<>>
  /\ prev = NewEngine
  /\ resets = 0
  /\ arg = EmptyState
  /\ results = <<>>
  /\ tc = 0
  /\ pos = 0
  /\ rules = inference_rules
  /\ pair = <<>>
  /\ sessions = <<>>

AnswerQuestion(q_id, v) ==
  /\ Len(calls) < MaxAnswers
  /\ engine' = answer_question(engine, q_id, v)
  /\ calls' = Append(calls, Answer(q_id, v))
  /\ prev' = engine
  /\ UNCHANGED <<resets, arg, results, tc, pos, rules, pair,
               sessions>>

Reset ==
  /\ resets < MaxResets
  /\ engine' = reset(engine)
  /\ calls' = <<>>
  /\ prev' = NewEngine
  /\ resets' = resets + 1
  /\ UNCHANGED <<arg, results, tc, pos, rules, pair,
               sessions>>

Next ==
  \/ \E q_id \in QuestionIds \cup {UnknownId} :
       \E v \in AnswerValues(q_id) : AnswerQuestion(q_id, v)
  \/ Reset

Spec == Init /\ [][Next]_vars

(***************************************************************************)
(* SpecCases: one engine, reset before each test case as the test runner   *)
(* does, then given the answers of the case in the order of its dict.      *)
(***************************************************************************)
TEST_CASES ==
  <<
     [name |-> "edge_case_1_out_of_scope",
      answers |-> <<
        Answer("Q1", Str("no_eu_connection"))>>],
     [name |-> "edge_case_2_prohibited_social_scoring",
      answers |-> <<
        Answer("Q1", Str("has_eu_connection")),
        Answer("Q2", List(<<"provider">>)),
        Answer("Q3", List(<<"none">>)),
        Answer("Q4", List(<<"social_scoring_public">>))>>],
     [name |-> "edge_case_3_excluded_personal_use",
      answers |-> <<
        Answer("Q1", Str("has_eu_connection")),
        Answer("Q2", List(<<"deployer">>)),
        Answer("Q3", List(<<"personal_non_professional">>))>>],
     [name |-> "edge_case_4_excluded_research",
      answers |-> <<
        Answer("Q1", Str("has_eu_connection")),
        Answer("Q2", List(<<"provider">>)),
        Answer("Q3", List(<<"research_only">>))>>],
     [name |-> "edge_case_5_excluded_open_source",
      answers |-> <<
        Answer("Q1", Str("has_eu_connection")),
        Answer("Q2", List(<<"provider">>)),
        Answer("Q3", List(<<"open_source_not_deployed">>))>>],
     [name |-> "common_case_1_provider_high_risk_employment",
      answers |-> <<
        Answer("Q1", Str("has_eu_connection")),
        Answer("Q2", List(<<"provider">>)),
        Answer("Q3", List(<<"none">>)),
        Answer("Q4", List(<<"none">>)),
        Answer("Q5", Str("no_gpai")),
        Answer("Q6", List(<<"annex_iii_employment">>)),
        Answer("Q6B", Str("yes_significant")),
        Answer("Q7", List(<<"interact_with_people">>))>>],
     [name |-> "common_case_2_deployer_non_high_risk_chatbot",
      answers |-> <<
        Answer("Q1", Str("has_eu_connection")),
        Answer("Q2", List(<<"deployer">>)),
        Answer("Q3", List(<<"none">>)),
        Answer("Q4", List(<<"none">>)),
        Answer("Q5", Str("no_gpai")),
        Answer("Q6", List(<<"none">>)),
        Answer("Q7", List(<<"interact_with_people">>))>>],
     [name |-> "common_case_3_gpai_systemic_risk",
      answers |-> <<
        Answer("Q1", Str("has_eu_connection")),
        Answer("Q2", List(<<"provider">>)),
        Answer("Q3", List(<<"none">>)),
        Answer("Q4", List(<<"none">>)),
        Answer("Q5", Str("yes_gpai")),
        Answer("Q5A", Str("yes_systemic")),
        Answer("Q6", List(<<"none">>)),
        Answer("Q7", List(<<"generate_synthetic_content">>))>>],
     [name |-> "common_case_4_gpai_no_systemic_risk",
      answers |-> <<
        Answer("Q1", Str("has_eu_connection")),
        Answer("Q2", List(<<"provider">>)),
        Answer("Q3", List(<<"none">>)),
        Answer("Q4", List(<<"none">>)),
        Answer("Q5", Str("yes_gpai")),
        Answer("Q5A", Str("no_systemic")),
        Answer("Q6", List(<<"none">>)),
        Answer("Q7", List(<<"none">>))>>],
     [name |-> "complex_case_1_product_manufacturer_medical",
      answers |-> <<
        Answer("Q1", Str("has_eu_connection")),
        Answer("Q2", List(<<"product_manufacturer">>)),
        Answer("Q3", List(<<"none">>)),
        Answer("Q4", List(<<"none">>)),
        Answer("Q5", Str("no_gpai")),
        Answer("Q6", List(<<"annex_i_section_a">>)),
        Answer("Q6A", Str("yes_required")),
        Answer("Q7", List(<<"none">>))>>],
     [name |-> "complex_case_2_deployer_becomes_provider",
      answers |-> <<
        Answer("Q1", Str("has_eu_connection")),
        Answer("Q2", List(<<"deployer">>)),
        Answer("Q3", List(<<"none">>)),
        Answer("Q4", List(<<"none">>)),
        Answer("Q5", Str("no_gpai")),
        Answer("Q6", List(<<"annex_iii_biometrics">>)),
        Answer("Q6B", Str("yes_significant")),
        Answer("Q7", List(<<"emotion_recognition">>)),
        Answer("Q8", List(<<"substantial_modification">>)),
        Answer("Q9", Str("yes_public"))>>],
     [name |-> "complex_case_3_high_risk_law_enforcement",
      answers |-> <<
        Answer("Q1", Str("has_eu_connection")),
        Answer("Q2", List(<<"provider">>)),
        Answer("Q3", List(<<"none">>)),
        Answer("Q4", List(<<"none">>)),
        Answer("Q5", Str("no_gpai")),
        Answer("Q6", List(<<"annex_iii_law_enforcement">>)),
        Answer("Q6B", Str("yes_significant")),
        Answer("Q7", List(<<"none">>))>>],
     [name |-> "regression_1_medical_no_third_party",
      answers |-> <<
        Answer("Q1", Str("has_eu_connection")),
        Answer("Q2", List(<<"provider">>)),
        Answer("Q3", List(<<"none">>)),
        Answer("Q4", List(<<"none">>)),
        Answer("Q5", Str("no_gpai")),
        Answer("Q6", List(<<"annex_i_section_a">>)),
        Answer("Q6A", Str("no_or_opt_out")),
        Answer("Q6B", Str("no_significant")),
        Answer("Q7", List(<<"none">>))>>],
     [name |-> "regression_2_multiple_transparency",
      answers |-> <<
        Answer("Q1", Str("has_eu_connection")),
        Answer("Q2", List(<<"provider">>)),
        Answer("Q3", List(<<"none">>)),
        Answer("Q4", List(<<"none">>)),
        Answer("Q5", Str("no_gpai")),
        Answer("Q6", List(<<"none">>)),
        Answer("Q7", List(<<"interact_with_people", "generate_synthetic_content">>))>>],
     [name |-> "regression_3_critical_infrastructure",
      answers |-> <<
        Answer("Q1", Str("has_eu_connection")),
        Answer("Q2", List(<<"provider", "deployer">>)),
        Answer("Q3", List(<<"none">>)),
        Answer("Q4", List(<<"none">>)),
        Answer("Q5", Str("no_gpai")),
        Answer("Q6", List(<<"annex_iii_critical_infra">>)),
        Answer("Q6B", Str("yes_significant")),
        Answer("Q7", List(<<"none">>))>>],
     [name |-> "prohibited_1_subliminal_manipulation",
      answers |-> <<
        Answer("Q1", Str("has_eu_connection")),
        Answer("Q2", List(<<"provider">>)),
        Answer("Q3", List(<<"none">>)),
        Answer("Q4", List(<<"subliminal_manipulation">>))>>],
     [name |-> "prohibited_2_exploit_vulnerabilities",
      answers |-> <<
        Answer("Q1", Str("has_eu_connection")),
        Answer("Q2", List(<<"provider">>)),
        Answer("Q3", List(<<"none">>)),
        Answer("Q4", List(<<"exploit_vulnerabilities">>))>>],
     [name |-> "prohibited_3_realtime_biometric",
      answers |-> <<
        Answer("Q1", Str("has_eu_connection")),
        Answer("Q2", List(<<"deployer">>)),
        Answer("Q3", List(<<"none">>)),
        Answer("Q4", List(<<"realtime_remote_biometric_public">>))>>],
     [name |-> "transparency_1_deepfake",
      answers |-> <<
        Answer("Q1", Str("has_eu_connection")),
        Answer("Q2", List(<<"deployer">>)),
        Answer("Q3", List(<<"none">>)),
        Answer("Q4", List(<<"none">>)),
        Answer("Q5", Str("no_gpai")),
        Answer("Q6", List(<<"none">>)),
        Answer("Q7", List(<<"deepfake">>))>>],
     [name |-> "transparency_2_emotion_recognition",
      answers |-> <<
        Answer("Q1", Str("has_eu_connection")),
        Answer("Q2", List(<<"deployer">>)),
        Answer("Q3", List(<<"none">>)),
        Answer("Q4", List(<<"none">>)),
        Answer("Q5", Str("no_gpai")),
        Answer("Q6", List(<<"none">>)),
        Answer("Q7", List(<<"emotion_recognition">>))>>] >>

StartCase(i) ==
  /\ IF tc = 0 THEN TRUE ELSE pos = Len(TEST_CASES[tc].answers)
  /\ engine' = reset(engine)
  /\ calls' = <<>>
  /\ prev' = NewEngine
  /\ tc' = i
  /\ pos' = 0
  /\ UNCHANGED <<resets, arg, results, rules, pair,
               sessions>>

AnswerCase ==
  /\ tc # 0
  /\ pos < Len(TEST_CASES[tc].answers)
  /\ LET a == TEST_CASES[tc].answers[pos + 1]
     IN /\ engine' = answer_question(engine, a.question_id, a.value)
        /\ calls' = Append(calls, a)
  /\ prev' = engine
  /\ pos' = pos + 1
  /\ UNCHANGED <<resets, arg, results, tc, rules, pair,
               sessions>>

NextCases ==
  \/ \E i \in 1..Len(TEST_CASES) : StartCase(i)
  \/ AnswerCase

SpecCases == Init /\ [][NextCases]_vars

(***************************************************************************)
(* SpecApply: apply_inference_rules as a function.  arg is any State built *)
(* with with_answer, with_flags and with_obligations from the sets below;  *)
(* results[k] is the function applied k times to arg.                      *)
(***************************************************************************)
MaxArgAnswers == 2

MaxApply == 2

ArgAnswers ==
  {Answer("Q2", List(<<"provider">>)), Answer("Q2", List(<<"deployer">>)),
   Answer("Q6B", Str("yes_significant")),
   Answer("Q8", List(<<"substantial_modification">>)),
   Answer("Q9", Str("yes_public"))}

ArgFlagNames == {"flag_high_risk", "flag_is_deployer", "flag_is_provider"}

ArgObligations ==
  {"obligation_ai_literacy", "obligation_provider_high_risk",
   "obligation_fundamental_rights_assessment"}

ArgAnswerSeqs ==
  UNION {[1..n -> ArgAnswers] : n \in 0..MaxArgAnswers}

ArgFlagDicts ==
  UNION {[D -> BOOLEAN] : D \in SUBSET ArgFlagNames}

RECURSIVE with_answers(_, _)
with_answers(s, as) ==
  IF as = <<>> THEN s
  ELSE with_answers(with_answer(s, Head(as)), Tail(as))

InitApply ==
  /\ engine = NewEngine
  /\ calls = <<>>
  /\ prev = NewEngine
  /\ resets = 0
  /\ tc = 0
  /\ pos = 0
  /\ rules = inference_rules
  /\ pair = <<>>
  /\ sessions = <<>>
  /\ results = <<>>
  /\ \E as \in ArgAnswerSeqs, fd \in ArgFlagDicts, os \in SUBSET ArgObligations :
       arg = with_obligations(with_flags(with_answers(EmptyState, as), fd), os)

Apply ==
  /\ Len(results) < MaxApply
  /\ results' = Append(results,
                  apply_inference_rules(
                    IF results = <<>> THEN arg ELSE results[Len(results)]))
  /\ UNCHANGED <<engine, calls, prev, resets, arg, tc, pos, rules, pair,
               sessions>>

NextApply == Apply

SpecApply == InitApply /\ [][NextApply]_vars

(***************************************************************************)
(* SpecSession: a questionnaire session.  The caller asks the engine for   *)
(* the next question and answers that question with one of its option      *)
(* values, until the engine returns None.                                  *)
(***************************************************************************)
AnswerNext(q_id, v) ==
  /\ q_id = get_next_question(engine.current_state)
  /\ engine' = answer_question(engine, q_id, v)
  /\ calls' = Append(calls, Answer(q_id, v))
  /\ prev' = engine
  /\ UNCHANGED <<resets, arg, results, tc, pos, rules, pair,
               sessions>>

NextSession ==
  \E q_id \in QuestionIds : \E v \in AnswerValues(q_id) : AnswerNext(q_id, v)

SpecSession == Init /\ [][NextSession]_vars

(***************************************************************************)
(* SpecRules: apply_inference_rules of an optimizer holding any rule set   *)
(* registered with add_inference_rule.  A rule has one of the probe        *)
(* predicates and one effect: a flag set to True or False, an obligation,  *)
(* or a key of neither kind.  Rule sets that flip a flag forever, that     *)
(* converge after several passes and that never fire are all among them.   *)
(* results holds the loop's final working state, its changed variable and  *)
(* the number of passes made.                                              *)
(***************************************************************************)
MaxRules == 2

ProbeKeys == {"flag_high_risk", "obligation_ai_literacy", "note_reviewed"}

ProbeRules ==
  {[name |-> n, effects |-> << <<k, v>> >>] :
     n \in ProbeNames, k \in ProbeKeys, v \in BOOLEAN}

ProbeRuleSets == UNION {[1..n -> ProbeRules] : n \in 0..MaxRules}

ProbeStates ==
  {with_flags(EmptyState, fd) :
     fd \in UNION {[D -> BOOLEAN] : D \in SUBSET {"flag_high_risk"}}}

InitRules ==
  /\ engine = NewEngine
  /\ calls = <<>>
  /\ prev = NewEngine
  /\ resets = 0
  /\ tc = 0
  /\ pos = 0
  /\ pair = <<>>
  /\ sessions = <<>>
  /\ results = <<>>
  /\ rules \in ProbeRuleSets
  /\ arg \in ProbeStates

ApplyRules ==
  /\ results = <<>>
  /\ results' = <<run_inference(rules, arg)>>
  /\ UNCHANGED <<engine, calls, prev, resets, arg, tc, pos, rules, pair,
               sessions>>

NextRules == ApplyRules

SpecRules == InitRules /\ [][NextRules]_vars

(***************************************************************************)
(* SpecEq: equality and hash of Answer and State.  Both are frozen         *)
(* dataclasses: the generated __eq__ compares the fields as tuples, and    *)
(* each class defines __hash__ itself.  A hash is modelled by the key the  *)
(* code hands to hash(): equal keys have equal hashes.  pair holds two     *)
(* Answers; results holds the outcome of comparing them and of comparing   *)
(* two States that differ in that one answer only.                         *)
(***************************************************************************)
MaxSelections == 2

\* Option values of Q7 in Python's string order.
TokenOrder == <<"deepfake", "emotion_recognition", "interact_with_people">>

Tokens == {TokenOrder[i] : i \in 1..Len(TokenOrder)}

\* sorted(value) for a list of option values: the items in ascending string
\* order, repeated items kept.
RECURSIVE SortTokens(_, _)
SortTokens(items, i) ==
  IF i > Len(TokenOrder) THEN <<>>
  ELSE LET Is(t) == t = TokenOrder[i]
       IN SelectSeq(items, Is) \o SortTokens(items, i + 1)

\* Answer.__eq__ as the dataclass generates it:
\* (question_id, value) == (other.question_id, other.value).
Answer_eq(a, b) == a.question_id = b.question_id /\ a.value = b.value

\* The key Answer.__hash__ hashes.
Answer_hash(a) ==
  IF a.value.kind = "list"
  THEN <<a.question_id, [kind |-> "tuple", items |-> SortTokens(a.value.items, 1)]>>
  ELSE <<a.question_id, a.value>>

\* State.__eq__ as the dataclass generates it: the three tuples compared
\* item by item with the items' own __eq__.
State_eq(s, t) ==
  /\ Len(s.answers) = Len(t.answers)
  /\ \A i \in 1..Len(s.answers) : Answer_eq(s.answers[i], t.answers[i])
  /\ s.flags = t.flags
  /\ s.obligations = t.obligations

\* The key State.__hash__ hashes; the hash of the answers tuple is built
\* from the hashes of its Answers.
State_hash(s) ==
  <<[i \in 1..Len(s.answers) |-> Answer_hash(s.answers[i])],
    s.flags, s.obligations>>

EqValues ==
  {Str(t) : t \in Tokens}
    \cup {List(seq) : seq \in UNION {[1..n -> Tokens] : n \in 0..MaxSelections}}

EqAnswers == {Answer(q_id, v) : q_id \in {"Q2", "Q7"}, v \in EqValues}

\* The State to which each Answer of the pair is added.
EqBase == Replay(<<Answer("Q2", List(<<"provider">>))>>).current_state

InitEq ==
  /\ engine = NewEngine
  /\ calls = <<>>
  /\ prev = NewEngine
  /\ resets = 0
  /\ tc = 0
  /\ pos = 0
  /\ rules = inference_rules
  /\ arg = EqBase
  /\ results = <<>>
  /\ pair \in EqAnswers \X EqAnswers
  /\ sessions = <<>>

Compare ==
  /\ results = <<>>
  /\ results' =
       <<[answers_equal |-> Answer_eq(pair[1], pair[2]),
          answers_hash_equal |-> Answer_hash(pair[1]) = Answer_hash(pair[2]),
          states_equal |-> State_eq(with_answer(arg, pair[1]),
                                    with_answer(arg, pair[2])),
          states_hash_equal |-> State_hash(with_answer(arg, pair[1]))
                                  = State_hash(with_answer(arg, pair[2]))]>>
  /\ UNCHANGED <<engine, calls, prev, resets, arg, tc, pos, rules, pair,
               sessions>>

NextEq == Compare

SpecEq == InitEq /\ [][NextEq]_vars

(***************************************************************************)
(* SpecState: the three transitions of State.  arg is the State a          *)
(* transition is called on; results holds the transition called, its       *)
(* argument and the State it returned.  State is a frozen dataclass whose  *)
(* fields are tuples, and no transition assigns to self.                   *)
(***************************************************************************)
StateArgs ==
  {with_obligations(with_flags(with_answers(EmptyState, as), fd), os) :
     as \in ArgAnswerSeqs,
     fd \in UNION {[D -> BOOLEAN] : D \in SUBSET {"flag_high_risk"}},
     os \in SUBSET {"obligation_ai_literacy", "obligation_handover"}}

InitState ==
  /\ engine = NewEngine
  /\ calls = <<>>
  /\ prev = NewEngine
  /\ resets = 0
  /\ tc = 0
  /\ pos = 0
  /\ rules = inference_rules
  /\ pair = <<>>
  /\ sessions = <<>>
  /\ results = <<>>
  /\ arg \in StateArgs

WithAnswer(answer) ==
  /\ results = <<>>
  /\ results' = <<[op |-> "with_answer", input |-> answer,
                   out |-> with_answer(arg, answer)]>>
  /\ UNCHANGED <<engine, calls, prev, resets, arg, tc, pos, rules, pair,
               sessions>>

WithFlags(new_flags) ==
  /\ results = <<>>
  /\ results' = <<[op |-> "with_flags", input |-> new_flags,
                   out |-> with_flags(arg, new_flags)]>>
  /\ UNCHANGED <<engine, calls, prev, resets, arg, tc, pos, rules, pair,
               sessions>>

WithObligations(new_obligations) ==
  /\ results = <<>>
  /\ results' = <<[op |-> "with_obligations", input |-> new_obligations,
                   out |-> with_obligations(arg, new_obligations)]>>
  /\ UNCHANGED <<engine, calls, prev, resets, arg, tc, pos, rules, pair,
               sessions>>

NextState ==
  \/ \E answer \in ArgAnswers : WithAnswer(answer)
  \/ \E new_flags \in ArgFlagDicts : WithFlags(new_flags)
  \/ \E new_obligations \in SUBSET ArgObligations :
       WithObligations(new_obligations)

SpecState == InitState /\ [][NextState]_vars

(***************************************************************************)
(* SpecShared: two assessment sessions that call answer_question on one    *)
(* engine object.  The engine has no lock, so the statements of            *)
(* answer_question are separate steps: the read of self.current_state and  *)
(* the store of the State computed from it (line 404, and again line 408)  *)
(* and the append to self.path (line 405).  sessions[t] holds the          *)
(* statement session t is at, the State it computed and has not stored     *)
(* yet, the answer of the call in progress and the answers of its          *)
(* completed calls.                                                        *)
(***************************************************************************)
MaxSharedCalls == 1

Sessions == {"A", "B"}

SharedAnswers ==
  {Answer("Q2", List(<<"provider">>)), Answer("Q2", List(<<"deployer">>)),
   Answer("Q6B", Str("yes_significant"))}

NoAnswer == Answer("", NoneVal)

IdleSession(own) ==
  [pc |-> "idle", local |-> EmptyState, answer |-> NoAnswer, own |-> own]

\* self.path.append(question_id) that leaves the list as it was.
path_append_lost(e, question_id) == e

\* self.path.append(question_id)
path_append(e, question_id) == [e EXCEPT !.path = Append(@, question_id)]

InitShared ==
  /\ engine = NewEngine
  /\ calls = <<>>
  /\ prev = NewEngine
  /\ resets = 0
  /\ tc = 0
  /\ pos = 0
  /\ rules = inference_rules
  /\ arg = EmptyState
  /\ results = <<>>
  /\ pair = <<>>
  /\ sessions = [t \in Sessions |-> IdleSession(<<>>)]

\* answer = Answer(question_id, answer_value) and the right-hand side of
\* self.current_state = self.current_state.with_answer(answer)
ReadState(t, answer) ==
  /\ sessions[t].pc = "idle"
  /\ Len(sessions[t].own) < MaxSharedCalls
  /\ sessions' = [sessions EXCEPT ![t] =
                    [pc |-> "store_answer",
                     local |-> with_answer(engine.current_state, answer),
                     answer |-> answer,
                     own |-> @.own]]
  /\ UNCHANGED <<engine, calls, prev, resets, arg, results, tc, pos, rules,
                 pair>>

\* the store of self.current_state = self.current_state.with_answer(answer)
StoreAnswer(t) ==
  /\ sessions[t].pc = "store_answer"
  /\ engine' = [engine EXCEPT !.current_state = sessions[t].local]
  /\ sessions' = [sessions EXCEPT ![t].pc = "append",
                                  ![t].local = EmptyState]
  /\ UNCHANGED <<calls, prev, resets, arg, results, tc, pos, rules, pair>>

\* self.path.append(question_id)
AppendPath(t) ==
  /\ sessions[t].pc = "append"
  /\ engine' = path_append(engine, sessions[t].answer.question_id)
  /\ sessions' = [sessions EXCEPT ![t].pc = "infer"]
  /\ UNCHANGED <<calls, prev, resets, arg, results, tc, pos, rules, pair>>

\* the right-hand side of
\* self.current_state = self.optimizer.apply_inference_rules(self.current_state)
Infer(t) ==
  /\ sessions[t].pc = "infer"
  /\ sessions' = [sessions EXCEPT ![t].pc = "store_inferred",
                                  ![t].local =
                                     apply_inference_rules(engine.current_state)]
  /\ UNCHANGED <<engine, calls, prev, resets, arg, results, tc, pos, rules,
                 pair>>

\* the store of that statement, and the return of answer_question
StoreInferred(t) ==
  /\ sessions[t].pc = "store_inferred"
  /\ engine' = [engine EXCEPT !.current_state = sessions[t].local]
  /\ sessions' = [sessions EXCEPT ![t] =
                    IdleSession(Append(@.own, @.answer))]
  /\ UNCHANGED <<calls, prev, resets, arg, results, tc, pos, rules, pair>>

NextShared ==
  \E t \in Sessions :
    \/ \E answer \in SharedAnswers : ReadState(t, answer)
    \/ StoreAnswer(t)
    \/ AppendPath(t)
    \/ Infer(t)
    \/ StoreInferred(t)

SpecShared == InitShared /\ [][NextShared]_vars

(***************************************************************************)
(* SpecOrder: optimize_question_order on any list of Questions and any     *)
(* initial State.  A Question is its id, information_gain,                 *)
(* terminal_probability and skip_conditions; the two numbers are held in   *)
(* hundredths, and the values drawn are ones whose float scores compare as *)
(* the exact ones do.  arg holds the two arguments, results the list       *)
(* returned.                                                               *)
(***************************************************************************)
MaxQuestions == 4

Question(id, information_gain, terminal_probability, conditions) ==
  [id |-> id, information_gain |-> information_gain,
   terminal_probability |-> terminal_probability,
   skip_conditions |-> conditions]

\* Question.is_skippable of a Question object, first component.
Question_is_skippable(q, s) ==
  \E i \in 1..Len(q.skip_conditions) :
     evaluate_condition(q.skip_conditions[i], s)

\* ig * (1 + alpha * q.terminal_probability) with alpha = 0.5, times 20000.
score(q) == q.information_gain * (200 + q.terminal_probability)

\* The for loop building scores: a (score, q) pair for each question of
\* remaining, from index i on, that is not skippable in current_state.
RECURSIVE build_scores(_, _, _)
build_scores(remaining, i, current_state) ==
  IF i > Len(remaining) THEN <<>>
  ELSE IF Question_is_skippable(remaining[i], current_state)
       THEN build_scores(remaining, i + 1, current_state)
       ELSE <<<<score(remaining[i]), remaining[i]>>>>
              \o build_scores(remaining, i + 1, current_state)

\* A sort by descending score that puts pairs of equal score in reverse
\* order of arrival.
RECURSIVE sort_reverse_unstable(_)
sort_reverse_unstable(scores) ==
  IF scores = <<>> THEN <<>>
  ELSE LET head == sort_reverse_unstable(SubSeq(scores, 1, Len(scores) - 1))
           x == scores[Len(scores)]
           k == Cardinality({j \in 1..Len(head) : head[j][1] > x[1]})
       IN SubSeq(head, 1, k) \o <<x>> \o SubSeq(head, k + 1, Len(head))

\* scores.sort(reverse=True, key=lambda x: x[0]): descending by score, pairs
\* of equal score in their order in scores (list.sort is stable, also with
\* reverse=True).
RECURSIVE sort_reverse(_)
sort_reverse(scores) ==
  IF scores = <<>> THEN <<>>
  ELSE LET head == sort_reverse(SubSeq(scores, 1, Len(scores) - 1))
           x == scores[Len(scores)]
           k == Cardinality({j \in 1..Len(head) : head[j][1] >= x[1]})
       IN SubSeq(head, 1, k) \o <<x>> \o SubSeq(head, k + 1, Len(head))

\* remaining.remove(q): the list without its first element equal to q.
list_remove(remaining, q) ==
  LET i == CHOOSE k \in 1..Len(remaining) :
             /\ remaining[k] = q
             /\ \A j \in 1..(k - 1) : remaining[j] # q
  IN SubSeq(remaining, 1, i - 1) \o SubSeq(remaining, i + 1, Len(remaining))

\* The while loop; current_state is never reassigned.
RECURSIVE order_loop(_, _, _)
order_loop(ordered, remaining, current_state) ==
  IF remaining = <<>> THEN ordered
  ELSE LET scores == build_scores(remaining, 1, current_state)
       IN IF scores = <<>> THEN ordered
          ELSE LET best_question == sort_reverse(scores)[1][2]
               IN order_loop(Append(ordered, best_question),
                             list_remove(remaining, best_question),
                             current_state)

optimize_question_order(questions, initial_state) ==
  order_loop(<<>>, questions, initial_state)

QuestionPool ==
  {Question("Q1", 85, 30, <<>>),
   Question("Q2", 92, 0, <<>>),
   Question("Q4", 95, 5, <<>>),
   Question("Q8", 45, 0, skip_conditions("Q8")),
   Question("Q9", 35, 0, skip_conditions("Q9")),
   Question("Q2_copy", 92, 0, <<>>)}

QuestionLists ==
  UNION {[1..n -> QuestionPool] : n \in 0..MaxQuestions}

InitialStates ==
  {with_flags(EmptyState, fd) :
     fd \in {<<>>} \cup {[n \in {"flag_is_provider"} |-> TRUE],
                         [n \in {"flag_high_risk", "flag_is_deployer"}
                            |-> TRUE]}}

InitOrder ==
  /\ engine = NewEngine
  /\ calls = <<>>
  /\ prev = NewEngine
  /\ resets = 0
  /\ tc = 0
  /\ pos = 0
  /\ rules = inference_rules
  /\ pair = <<>>
  /\ sessions = <<>>
  /\ results = <<>>
  /\ arg \in {[questions |-> qs, initial_state |-> s] :
                qs \in QuestionLists, s \in InitialStates}

Optimize ==
  /\ results = <<>>
  /\ results' = <<optimize_question_order(arg.questions, arg.initial_state)>>
  /\ UNCHANGED <<engine, calls, prev, resets, arg, tc, pos, rules, pair,
                 sessions>>

NextOrder == Optimize

SpecOrder == InitOrder /\ [][NextOrder]_vars

(***************************************************************************)
(* SpecGain: the answer distributions of calculate_information_gain.  arg  *)
(* holds the option values of the question and the state space, results    *)
(* the dict _partition_by_answer returns and, for each answer value, the   *)
(* weight len(subset) / len(state_space) as numerator and denominator.     *)
(* The entropies, which the weights multiply, are not computed here.       *)
(***************************************************************************)
MaxOptions == 2

MaxSpace == 2

\* for option in question.options: partitions[option['value']].append(s)
RECURSIVE append_to_options(_, _, _, _)
append_to_options(partitions, options, j, s) ==
  IF j > Len(options) THEN partitions
  ELSE LET answer_value == options[j]
           old == IF answer_value \in DOMAIN partitions
                  THEN partitions[answer_value] ELSE <<>>
       IN append_to_options(
            [v \in DOMAIN partitions \cup {answer_value} |->
               IF v = answer_value THEN Append(old, s) ELSE partitions[v]],
            options, j + 1, s)

\* for s in state_space, from index i on
RECURSIVE partition_loop(_, _, _, _)
partition_loop(partitions, options, state_space, i) ==
  IF i > Len(state_space) THEN partitions
  ELSE partition_loop(
         append_to_options(partitions, options, 1, state_space[i]),
         options, state_space, i + 1)

partition_by_answer(options, state_space) ==
  partition_loop(<<>>, options, state_space, 1)

\* prob = len(subset) / len(state_space), for every item of the dict
answer_weights(answer_distributions, state_space) ==
  [v \in DOMAIN answer_distributions |->
     <<Len(answer_distributions[v]), Len(state_space)>>]

OptionValues == {"yes_required", "no_or_opt_out"}

OptionLists == UNION {[1..n -> OptionValues] : n \in 0..MaxOptions}

SpaceStates ==
  {EmptyState,
   with_flags(EmptyState, [n \in {"flag_high_risk"} |-> TRUE]),
   with_obligations(with_flags(EmptyState,
                               [n \in {"flag_is_provider"} |-> TRUE]),
                    {"obligation_ai_literacy"})}

StateSpaces == UNION {[1..n -> SpaceStates] : n \in 0..MaxSpace}

InitGain ==
  /\ engine = NewEngine
  /\ calls = <<>>
  /\ prev = NewEngine
  /\ resets = 0
  /\ tc = 0
  /\ pos = 0
  /\ rules = inference_rules
  /\ pair = <<>>
  /\ sessions = <<>>
  /\ results = <<>>
  /\ arg \in {[options |-> os, state_space |-> sp] :
                os \in OptionLists, sp \in StateSpaces}

CalculateGain ==
  /\ results = <<>>
  /\ LET answer_distributions ==
           partition_by_answer(arg.options, arg.state_space)
     IN results' = <<[answer_distributions |-> answer_distributions,
                      weights |-> answer_weights(answer_distributions,
                                                 arg.state_space)]>>
  /\ UNCHANGED <<engine, calls, prev, resets, arg, tc, pos, rules, pair,
                 sessions>>

NextGain == CalculateGain

SpecGain == InitGain /\ [][NextGain]_vars

(***************************************************************************)
(* SpecPaths: ECRoutingAnalyzer._enumerate_paths('Q1', [], [], {}) over a  *)
(* routing table.  questions_logic maps a question id to its answer keys   *)
(* and its routes; a route is its conditions and its go_to.  arg holds the *)
(* table.  results holds the analyzer during the enumeration: the stack of *)
(* the calls of _enumerate_paths in progress (each with its arguments and  *)
(* k, the number of the answer key its loop is at, 0 before the loop), the *)
(* list path the calls share, all_paths, and the greatest depth a call was *)
(* made with.  The tables drawn set no flags.                              *)
(***************************************************************************)
max_depth == 20

MaxAnswerKeys == 2

\* flags.get(flag_name), None when absent
routing_flags_get(flags, flag_name) ==
  IF flag_name \in DOMAIN flags THEN <<flags[flag_name]>> ELSE <<>>

\* _matches_conditions: every condition of a kind the function tests holds;
\* the checkbox kinds are passed over.
matches_conditions(conditions, answer, flags) ==
  \A i \in 1..Len(conditions) :
     LET cond == conditions[i]
     IN CASE cond.kind = "answer_is" -> cond.value = answer
          [] cond.kind = "if_any_answer_in" -> answer \in cond.value
          [] cond.kind = "flag_equals" ->
               routing_flags_get(flags, cond.flag_name) = <<cond.value>>
          [] OTHER -> TRUE

\* The first route whose conditions match, as a sequence of at most one.
first_match(routing, answer, flags) ==
  LET hits == {i \in 1..Len(routing) :
                 matches_conditions(routing[i].conditions, answer, flags)}
  IN IF hits = {} THEN <<>>
     ELSE <<routing[CHOOSE i \in hits : \A j \in hits : i <= j]>>

PathResult(questions, answers, flags) ==
  [questions |-> questions, answers |-> answers, flags |-> flags,
   end_state |-> "END", path_length |-> Len(questions)]

Call(current_q, answers, flags, depth) ==
  [current_q |-> current_q, answers |-> answers, flags |-> flags,
   depth |-> depth, k |-> 0]

Pop(stack) == SubSeq(stack, 1, Len(stack) - 1)

\* The start of a call that records a path ending at END before it looks at
\* the depth.
enter_call_end_first(logic, a) ==
  LET f == a.stack[Len(a.stack)]
  IN IF f.current_q = "END"
     THEN [a EXCEPT !.all_paths =
                      Append(@, PathResult(a.path, f.answers, f.flags)),
                    !.stack = Pop(@)]
     ELSE IF f.depth > max_depth THEN [a EXCEPT !.stack = Pop(@)]
     ELSE IF f.current_q \notin DOMAIN logic THEN [a EXCEPT !.stack = Pop(@)]
     ELSE [a EXCEPT !.path = Append(@, f.current_q),
                    !.stack[Len(a.stack)].k = 1]

\* The start of the call on top of the stack, up to path.append(current_q):
\* the three returns, else the loop over the answer keys begins.
enter_call(logic, a) ==
  LET f == a.stack[Len(a.stack)]
  IN IF f.depth > max_depth THEN [a EXCEPT !.stack = Pop(@)]
     ELSE IF f.current_q = "END"
     THEN [a EXCEPT !.all_paths =
                      Append(@, PathResult(a.path, f.answers, f.flags)),
                    !.stack = Pop(@)]
     ELSE IF f.current_q \notin DOMAIN logic THEN [a EXCEPT !.stack = Pop(@)]
     ELSE [a EXCEPT !.path = Append(@, f.current_q),
                    !.stack[Len(a.stack)].k = 1]

\* One round of the loop over q_answers.keys() of the call on top of the
\* stack: the recursive call when a route matches and its go_to is not
\* empty; after the last key path.pop() and the return.
next_answer(logic, a) ==
  LET n == Len(a.stack)
      f == a.stack[n]
      q_logic == logic[f.current_q]
  IN IF f.k > Len(q_logic.answers)
     THEN [a EXCEPT !.path = Pop(@), !.stack = Pop(@)]
     ELSE LET ans_key == q_logic.answers[f.k]
              route == first_match(q_logic.routing, ans_key, f.flags)
          IN IF route # <<>> /\ route[1].go_to # ""
             THEN [a EXCEPT
                     !.stack = Append([@ EXCEPT ![n].k = f.k + 1],
                                 Call(route[1].go_to,
                                      Append(f.answers,
                                             <<f.current_q, ans_key>>),
                                      f.flags, f.depth + 1)),
                     !.deepest = IF f.depth + 1 > @ THEN f.depth + 1 ELSE @]
             ELSE [a EXCEPT !.stack[n].k = f.k + 1]

\* The routing tables drawn: two questions with the answer keys
\* 1..MaxAnswerKeys, a first route for answer 1 that goes to either question,
\* to END or to an id that is not in the table, and possibly a second route
\* without conditions (taken by the other answers) that goes to END or to the
\* missing id.  Without the second route no rule matches the other answers.
LogicIds == {"Q1", "Q2"}

Route(conditions, go_to) == [conditions |-> conditions, go_to |-> go_to]

QuestionLogics ==
  {[answers |-> [i \in 1..MaxAnswerKeys |-> i],
    routing |-> <<Route(<<[kind |-> "answer_is", value |-> 1]>>, t)>> \o r] :
     t \in LogicIds \cup {"END", "Q_missing"},
     r \in {<<>>, <<Route(<<>>, "END")>>, <<Route(<<>>, "Q_missing")>>}}

RoutingTables == [LogicIds -> QuestionLogics]

InitPaths ==
  /\ engine = NewEngine
  /\ calls = <<>>
  /\ prev = NewEngine
  /\ resets = 0
  /\ tc = 0
  /\ pos = 0
  /\ rules = inference_rules
  /\ pair = <<>>
  /\ sessions = <<>>
  /\ arg \in RoutingTables
  /\ results = [stack |-> <<Call("Q1", <<>>, <<>>, 0)>>, path |-> <<>>,
                all_paths |-> <<>>, deepest |-> 0]

EnterCall ==
  /\ results.stack # <<>>
  /\ results.stack[Len(results.stack)].k = 0
  /\ results' = enter_call(arg, results)
  /\ UNCHANGED <<engine, calls, prev, resets, arg, tc, pos, rules, pair,
                 sessions>>

NextAnswer ==
  /\ results.stack # <<>>
  /\ results.stack[Len(results.stack)].k > 0
  /\ results' = next_answer(arg, results)
  /\ UNCHANGED <<engine, calls, prev, resets, arg, tc, pos, rules, pair,
                 sessions>>

NextPaths == EnterCall \/ NextAnswer

SpecPaths == InitPaths /\ [][NextPaths]_vars /\ WF_vars(NextPaths)

(***************************************************************************)
(* SpecPerm: one engine given a list of answers to pairwise distinct       *)
(* question ids, one answer_question call per step.  arg holds the list,   *)
(* calls the calls made so far.                                            *)
(***************************************************************************)
MaxPermAnswers == 3

PermAnswers ==
  {Answer("Q2", List(<<"provider">>)), Answer("Q2", List(<<"deployer">>)),
   Answer("Q3", List(<<"research_only">>)),
   Answer("Q6A", Str("yes_required")),
   Answer("Q8", List(<<"substantial_modification">>)),
   Answer("Q9", Str("yes_public"))}

PermLists ==
  {as \in UNION {[1..n -> PermAnswers] : n \in 0..MaxPermAnswers} :
     \A i, j \in 1..Len(as) :
        i # j => as[i].question_id # as[j].question_id}

InitPerm ==
  /\ engine = NewEngine
  /\ calls = <<>>
  /\ prev = NewEngine
  /\ resets = 0
  /\ tc = 0
  /\ pos = 0
  /\ rules = inference_rules
  /\ pair = <<>>
  /\ sessions = <<>>
  /\ results = <<>>
  /\ arg \in PermLists

AnswerListed ==
  /\ Len(calls) < Len(arg)
  /\ LET a == arg[Len(calls) + 1]
     IN /\ engine' = answer_question(engine, a.question_id, a.value)
        /\ calls' = Append(calls, a)
  /\ prev' = engine
  /\ UNCHANGED <<resets, arg, results, tc, pos, rules, pair, sessions>>

NextPerm == AnswerListed

SpecPerm == InitPerm /\ [][NextPerm]_vars

(***************************************************************************)
(* SpecHeld: one engine whose caller keeps the ComplianceResult objects    *)
(* get_result returned while it goes on using the engine.  Python lists    *)
(* are objects: results.lists is the heap of the list objects made so far  *)
(* (its index is the object's identity), results.path the identity of the  *)
(* list self.path refers to, and results.held the results returned so far, *)
(* each with the identity of the list its path_taken refers to.  flags and *)
(* obligations of a result are fresh copies (dict(...), set(...)) and the  *)
(* other fields are immutable values.  engine.path is the content of the   *)
(* list self.path refers to.                                               *)
(***************************************************************************)
MaxHeldAnswers == 2
MaxHeld == 2

HeldAnswers ==
  {Answer("Q1", Str("no_eu_connection")), Answer("Q2", List(<<"provider">>)),
   Answer("Q6A", Str("yes_required"))}

InitHeld ==
  /\ engine = NewEngine
  /\ calls = <<>>
  /\ prev = NewEngine
  /\ resets = 0
  /\ arg = <<>>
  /\ tc = 0
  /\ pos = 0
  /\ rules = inference_rules
  /\ pair = <<>>
  /\ sessions = <<>>
  /\ results = [lists |-> << <<>> >>, path |-> 1, held |-> <<>>]

\* answer_question: self.path.append changes the list object in place.
HeldAnswer(a) ==
  /\ Len(calls) < MaxHeldAnswers
  /\ engine' = answer_question(engine, a.question_id, a.value)
  /\ calls' = Append(calls, a)
  /\ prev' = engine
  /\ results' = [results EXCEPT
                   !.lists[results.path] = Append(@, a.question_id)]
  /\ UNCHANGED <<resets, arg, tc, pos, rules, pair, sessions>>

\* get_result: path_taken=self.path hands out the list object itself.
HeldGetResult ==
  /\ Len(results.held) < MaxHeld
  /\ results' = [results EXCEPT
                   !.held = Append(@,
                      [get_result(engine.current_state, engine.path)
                         EXCEPT !.path_taken = results.path])]
  /\ UNCHANGED <<engine, calls, prev, resets, arg, tc, pos, rules, pair,
                 sessions>>

\* reset: self.path = [] binds a new list object.
HeldReset ==
  /\ resets < MaxResets
  /\ engine' = reset(engine)
  /\ calls' = <<>>
  /\ prev' = NewEngine
  /\ resets' = resets + 1
  /\ results' = [results EXCEPT !.lists = Append(@, <<>>),
                                !.path = Len(results.lists) + 1]
  /\ UNCHANGED <<arg, tc, pos, rules, pair, sessions>>

NextHeld ==
  \/ \E a \in HeldAnswers : HeldAnswer(a)
  \/ HeldGetResult
  \/ HeldReset

SpecHeld == InitHeld /\ [][NextHeld]_vars

(***************************************************************************)
(* Properties.                                                             *)
(***************************************************************************)
Result == get_result(engine.current_state, engine.path)

Flag(name) == get_flag(engine.current_state, name)

Obligations == get_obligations_set(engine.current_state)

NextQuestion == get_next_question(engine.current_state)

\* C1: in every state reached by answer_question and reset calls, get_result
\* classifies by strict priority: OUT_OF_SCOPE if flag_out_of_scope, else
\* EXCLUDED if flag_excluded, else PROHIBITED if flag_prohibited, else
\* COMPLIANCE_REQUIRED; excluded and prohibited together give EXCLUDED.
C1_ClassificationPriority ==
  /\ Flag("flag_out_of_scope") => Result.result = "OUT_OF_SCOPE"
  /\ (~Flag("flag_out_of_scope") /\ Flag("flag_excluded"))
       => Result.result = "EXCLUDED"
  /\ (~Flag("flag_out_of_scope") /\ ~Flag("flag_excluded")
        /\ Flag("flag_prohibited")) => Result.result = "PROHIBITED"
  /\ (~Flag("flag_out_of_scope") /\ ~Flag("flag_excluded")
        /\ ~Flag("flag_prohibited")) => Result.result = "COMPLIANCE_REQUIRED"
  /\ (Flag("flag_excluded") /\ Flag("flag_prohibited"))
       => Result.result # "PROHIBITED"

C1_Witness ==
  /\ Flag("flag_excluded")
  /\ Flag("flag_prohibited")
  /\ ~Flag("flag_out_of_scope")
  /\ Result.result = "EXCLUDED"

\* C2: every answer_question call leaves the obligation set a superset of
\* what it was before the call, so the obligation count never decreases.
C2_MonotonicObligations ==
  [][Len(calls') = Len(calls) + 1 =>
       /\ Obligations \subseteq get_obligations_set(engine'.current_state)
       /\ Cardinality(Obligations) <=
            Cardinality(get_obligations_set(engine'.current_state))]_vars

C2_Witness ==
  /\ Len(calls) = 2
  /\ LET before == get_obligations_set(Replay(SubSeq(calls, 1, 1)).current_state)
     IN /\ before # {}
        /\ before \subseteq Obligations
        /\ before # Obligations

\* C3: apply_inference_rules is idempotent under the rule catalogue: applied
\* to its own result it returns that result unchanged, for any State.
C3_Idempotent ==
  \A k \in 1..Len(results) :
     /\ apply_inference_rules(results[k]) = results[k]
     /\ k > 1 => results[k] = results[k - 1]

\* A State that needed a second pass (the first pass alone gives less), with
\* the function applied twice.
C3_Witness ==
  /\ Len(results) = 2
  /\ results[1] # arg
  /\ rules_pass(inference_rules, 1,
                [current_state |-> arg, changed |-> FALSE]).current_state
       # results[1]

\* C4: the results depend only on the answers given since construction or
\* the last reset: the engine reports the same ComplianceResult and the same
\* next question as a fresh engine given the same answer_question calls.
C4_Determinism ==
  LET fresh == Replay(calls)
  IN /\ Result = get_result(fresh.current_state, fresh.path)
     /\ NextQuestion = get_next_question(fresh.current_state)

C4_Witness ==
  /\ resets >= 1
  /\ Len(calls) = 2
  /\ Obligations # {}
  /\ Result = get_result(Replay(calls).current_state, Replay(calls).path)

\* C5: whenever flag_out_of_scope, flag_excluded or flag_prohibited is true
\* get_next_question returns None, whatever is still unanswered.
C5_TerminalFlagEndsQuestions ==
  (Flag("flag_out_of_scope") \/ Flag("flag_excluded") \/ Flag("flag_prohibited"))
    => NextQuestion = "None"

C5_Witness ==
  /\ Flag("flag_prohibited")
  /\ ~Flag("flag_out_of_scope")
  /\ ~Flag("flag_excluded")
  /\ get_answer(engine.current_state, "Q1") = NoneVal
  /\ NextQuestion = "None"

\* C6: on a fresh engine the single call answer_question('Q1',
\* 'no_eu_connection') gives questions_asked 1, OUT_OF_SCOPE,
\* flag_out_of_scope true and no obligations.
C6_EarlyTermination ==
  (resets = 0 /\ calls = <<Answer("Q1", Str("no_eu_connection"))>>) =>
    /\ Result.questions_asked = 1
    /\ Result.result = "OUT_OF_SCOPE"
    /\ "flag_out_of_scope" \in DOMAIN Result.flags
    /\ Result.flags["flag_out_of_scope"] = TRUE
    /\ Result.obligations = {}

C6_Witness ==
  /\ resets = 0
  /\ calls = <<Answer("Q1", Str("no_eu_connection"))>>
  /\ Result.result = "OUT_OF_SCOPE"
  /\ Result.questions_asked = 1

\* The flags of a result that are true.
TrueFlags(r) == {n \in DOMAIN r.flags : r.flags[n]}

\* C7: after Q1='has_eu_connection', Q2=['provider'], Q3=['none'],
\* Q4=['social_scoring_public'] on a fresh engine get_result reports 4
\* questions, flag_prohibited and flag_is_provider true, obligations exactly
\* {obligation_ai_literacy} and PROHIBITED.
C7_ProhibitedPath ==
  calls = TEST_CASES[2].answers =>
    /\ Result.questions_asked = 4
    /\ {"flag_prohibited", "flag_is_provider"} \subseteq TrueFlags(Result)
    /\ Result.obligations = {"obligation_ai_literacy"}
    /\ Result.result = "PROHIBITED"

\* C8: after the eight answers of the GPAI systemic-risk case get_result
\* reports 7 questions, the four obligations ai_literacy, gpai_base,
\* gpai_systemic and transparency_synthetic_content, the flags is_provider,
\* gpai and gpai_systemic_risk true and COMPLIANCE_REQUIRED.
C8_GpaiSystemicPath ==
  calls = TEST_CASES[8].answers =>
    /\ Result.questions_asked = 7
    /\ Result.obligations =
         {"obligation_ai_literacy", "obligation_gpai_base",
          "obligation_gpai_systemic",
          "obligation_transparency_synthetic_content"}
    /\ {"flag_is_provider", "flag_gpai", "flag_gpai_systemic_risk"}
         \subseteq TrueFlags(Result)
    /\ Result.result = "COMPLIANCE_REQUIRED"

\* C9: after the ten answers of the deployer-becomes-provider case
\* get_result reports 9 questions, COMPLIANCE_REQUIRED, the flags
\* is_deployer, becomes_provider, is_provider and high_risk true and exactly
\* the six obligations ai_literacy, handover, deployer_high_risk,
\* provider_high_risk, transparency_emotion_biometric and
\* fundamental_rights_assessment.
C9_DeployerBecomesProviderPath ==
  calls = TEST_CASES[11].answers =>
    /\ Result.questions_asked = 9
    /\ Result.result = "COMPLIANCE_REQUIRED"
    /\ {"flag_is_deployer", "flag_becomes_provider", "flag_is_provider",
        "flag_high_risk"} \subseteq TrueFlags(Result)
    /\ Result.obligations =
         {"obligation_ai_literacy", "obligation_handover",
          "obligation_deployer_high_risk", "obligation_provider_high_risk",
          "obligation_transparency_emotion_biometric",
          "obligation_fundamental_rights_assessment"}

\* C10: flag_excluded is set exactly when the Q3 answer holds a selection
\* other than 'none'; a Q3 answer of only 'none', as a string or as the list
\* ['none'], leaves the flag unset, the result is not EXCLUDED and, once Q1
\* and Q2 are answered with an EU connection, the next question is Q4.
C10_ExcludedIffRealExclusion ==
  LET q3 == get_answer(engine.current_state, "Q3")
      selects == \E i \in 1..Len(q3.items) : q3.items[i] # "none"
  IN q3 # NoneVal =>
       /\ Flag("flag_excluded") <=> selects
       /\ ~selects =>
            /\ Result.result # "EXCLUDED"
            /\ (Len(calls) = 3 /\ calls[1] = Answer("Q1", Str("has_eu_connection"))
                  /\ calls[2].question_id = "Q2" /\ calls[3].question_id = "Q3")
                 => NextQuestion = "Q4"

\* The selections of an answer value other than 'none'.
Selections(v) == {v.items[i] : i \in 1..Len(v.items)} \ {"none"}

\* C11: flag_prohibited is set exactly when the Q4 answer holds a selection
\* other than 'none'; a Q4 answer of only 'none', as a string or as the list
\* ['none'], leaves the flag unset and the result is not PROHIBITED, and a
\* prohibited function selected after Q1='has_eu_connection' and Q3 none
\* gives PROHIBITED.
C11_ProhibitedIffRealFunction ==
  LET q4 == get_answer(engine.current_state, "Q4")
      q3 == get_answer(engine.current_state, "Q3")
  IN q4 # NoneVal =>
       /\ Flag("flag_prohibited") <=> Selections(q4) # {}
       /\ Selections(q4) = {} => Result.result # "PROHIBITED"
       /\ (/\ Selections(q4) # {}
           /\ get_answer(engine.current_state, "Q1") = Str("has_eu_connection")
           /\ q3 \in {Str("none"), List(<<"none">>)})
            => Result.result = "PROHIBITED"

\* C12: get_next_question returns Q6A only if the recorded Q6 answer selected
\* annex_i_section_a or annex_i_section_b; after a Q6 answer of Annex III
\* categories only, or of 'none', Q6A is not returned.
C12_Q6AOnlyForAnnexI ==
  NextQuestion = "Q6A" =>
    Selections(get_answer(engine.current_state, "Q6"))
      \cap {"annex_i_section_a", "annex_i_section_b"} # {}

\* C13: get_next_question returns Q9 only in states where flag_high_risk and
\* flag_is_deployer are both true: with the answers of any session state and
\* any values, set or unset, of the flags the routing reads, Q9 is not
\* returned while either flag is false or unset.
C13_Q9OnlyForHighRiskDeployer ==
  \A fd \in ArgFlagDicts \cup {get_flags_dict(engine.current_state)} :
     LET s == with_flags(engine.current_state, fd)
     IN get_next_question(s) = "Q9" =>
          /\ get_flag(s, "flag_high_risk")
          /\ get_flag(s, "flag_is_deployer")

C13_Witness ==
  /\ NextQuestion = "Q9"
  /\ Flag("flag_high_risk")
  /\ Flag("flag_is_deployer")
  /\ \E fd \in ArgFlagDicts :
        /\ "flag_high_risk" \in DOMAIN fd
        /\ ~fd["flag_high_risk"]
        /\ get_next_question(with_flags(engine.current_state, fd)) = "None"

\* The configured skip conditions that are not of the shape
\* '<flag_name> == True' or '<flag_name> == False': those of Q5A, Q6A, Q6B.
OtherShapeConditions ==
  {skip_conditions(q_id)[i] :
     q_id \in {"Q5A", "Q6A", "Q6B"}, i \in {1}}

\* C14: every configured skip condition outside the shape
\* '<flag_name> == True/False' ('Q5_answer != yes_gpai', 'Q6_answer not in
\* [...]', 'Q6_answer == none') evaluates to false in every state, so
\* is_skippable never reports a skip for Q5A, Q6A or Q6B.
C14_UninterpretableNeverSkips ==
  /\ \A cond \in OtherShapeConditions :
        ~evaluate_condition(cond, engine.current_state)
  /\ \A q_id \in {"Q5A", "Q6A", "Q6B"} : ~is_skippable(q_id, engine.current_state)

\* The latest answer_question call, and what get_result returned before it.
LastCall == calls[Len(calls)]

ResultBefore == get_result(prev.current_state, prev.path)

\* C15 as stated: after answer_question with an id outside the question
\* set, get_result (classification, flags, obligations, questions_asked,
\* path_taken) and get_next_question return what they returned before.
C15_UnknownIdNoEffect ==
  (calls # <<>> /\ LastCall.question_id = UnknownId) =>
    /\ Result = ResultBefore
    /\ NextQuestion = get_next_question(prev.current_state)

\* C15, amended: answer_question with an id outside the question set leaves
\* classification, flags, obligations, explanation and the next question as
\* they were, but is recorded like any other answer: questions_asked grows
\* by one and the id is appended to path_taken.
C15_UnknownIdOnlyRecorded ==
  (calls # <<>> /\ LastCall.question_id = UnknownId) =>
    /\ Result.result = ResultBefore.result
    /\ Result.flags = ResultBefore.flags
    /\ Result.obligations = ResultBefore.obligations
    /\ Result.explanation = ResultBefore.explanation
    /\ NextQuestion = get_next_question(prev.current_state)
    /\ Result.questions_asked = ResultBefore.questions_asked + 1
    /\ Result.path_taken = Append(ResultBefore.path_taken, UnknownId)
    /\ engine.current_state.answers =
         Append(prev.current_state.answers, LastCall)

C15_Witness ==
  /\ Len(calls) = 2
  /\ LastCall.question_id = UnknownId
  /\ calls[1] = Answer("Q2", List(<<"provider">>))
  /\ Result.obligations = {"obligation_ai_literacy"}
  /\ Result.questions_asked = 2
  /\ Result.path_taken = <<"Q2", UnknownId>>
  /\ NextQuestion = "Q1"

C17_ResetRestoresInitial ==
  resets >= 1 =>
    /\ calls = <<>> =>
         /\ engine = NewEngine
         /\ TrueFlags(Result) = {}
         /\ DOMAIN Result.flags = {}
         /\ Result.obligations = {}
         /\ Result.questions_asked = 0
         /\ Result.path_taken = <<>>
         /\ Result.result = "COMPLIANCE_REQUIRED"
         /\ NextQuestion = "Q1"
    /\ engine = Replay(calls)
    /\ engine.current_state.answers = calls

C17_Witness ==
  /\ resets = 1
  /\ calls = <<>>
  /\ engine.current_state = EmptyState
  /\ engine.path = <<>>
  /\ NextQuestion = "Q1"

\* The loop variables after k passes over the rules rs, from the values c.
RECURSIVE passes(_, _, _)
passes(rs, c, k) ==
  IF k > 0 /\ c.changed \in BOOLEAN
  THEN passes(rs,
         rules_pass(rs, 1, [current_state |-> c.current_state,
                            changed |-> FALSE]),
         k - 1)
  ELSE c

\* C18: apply_inference_rules terminates for every rule set, cyclic ones
\* included: it makes at most 10 passes, stops at the first pass in which no
\* flag value changed and no obligation was added, and when the cap is hit
\* it returns the working state reached, which is a State like any other.
C18_BoundedFixedPoint ==
  \A j \in 1..Len(results) :
     LET r == results[j]
         start == [current_state |-> arg, changed |-> TRUE]
     IN /\ r.iteration \in 1..max_iterations
        /\ r.current_state = passes(rules, start, r.iteration).current_state
        /\ r.changed = passes(rules, start, r.iteration).changed
        /\ \A k \in 1..(r.iteration - 1) : passes(rules, start, k).changed
        /\ r.iteration < max_iterations => ~r.changed
        /\ r.changed => r.iteration = max_iterations
        /\ r.current_state.answers = arg.answers
        /\ get_obligations_set(r.current_state) \subseteq ObligationNames
        /\ DOMAIN get_flags_dict(r.current_state) \subseteq FlagNames

\* Two rules that keep flipping flag_high_risk: the cap is hit with the last
\* pass still changing the flag.
C18_Witness ==
  /\ Len(results) = 1
  /\ Len(rules) = 2
  /\ rules[1].effects = << <<"flag_high_risk", TRUE>> >>
  /\ rules[2].effects = << <<"flag_high_risk", FALSE>> >>
  /\ results[1].iteration = max_iterations
  /\ results[1].changed

\* The value given in the first of the calls for a question id, None when
\* there is no call for it.
FirstValue(q_id) ==
  LET idx == {i \in 1..Len(calls) : calls[i].question_id = q_id}
  IN IF idx = {} THEN NoneVal
     ELSE calls[CHOOSE i \in idx : \A j \in idx : i <= j].value

\* C19: get_answer(id) returns the value of the first recorded Answer with
\* that id, or None when there is none.  So when a question id is answered
\* again with a different value, flags, obligations and classification are
\* what they were before the second answer, although it is appended to the
\* answers and to the path.
C19_FirstAnswerWins ==
  /\ engine.current_state.answers = calls
  /\ \A q_id \in QuestionIds \cup {UnknownId} :
        get_answer(engine.current_state, q_id) = FirstValue(q_id)
  /\ (/\ calls # <<>>
      /\ FirstValue(LastCall.question_id) # LastCall.value) =>
       /\ engine.current_state.flags = prev.current_state.flags
       /\ engine.current_state.obligations = prev.current_state.obligations
       /\ Result.result = ResultBefore.result
       /\ engine.current_state.answers =
            Append(prev.current_state.answers, LastCall)
       /\ engine.path = Append(prev.path, LastCall.question_id)

\* Q1 answered 'has_eu_connection' and then 'no_eu_connection': the second
\* value alone would put the system out of scope.
C19_Witness ==
  /\ calls = <<Answer("Q1", Str("has_eu_connection")),
               Answer("Q1", Str("no_eu_connection"))>>
  /\ get_answer(engine.current_state, "Q1") = Str("has_eu_connection")
  /\ ~Flag("flag_out_of_scope")
  /\ Result.result = "COMPLIANCE_REQUIRED"
  /\ Result.path_taken = <<"Q1", "Q1">>

\* Two list values that hold the same selections, each as often as the
\* other.
SameSelections(v, w) ==
  /\ v.kind = "list"
  /\ w.kind = "list"
  /\ Len(v.items) = Len(w.items)
  /\ \A t \in Tokens :
        Cardinality({i \in 1..Len(v.items) : v.items[i] = t})
          = Cardinality({i \in 1..Len(w.items) : w.items[i] = t})

\* C20: two Answers with the same question_id whose list values hold the
\* same selections in a different order compare equal and have the same
\* hash, and two States that differ only in the order of the selections of
\* one list-valued answer compare equal and hash identically.
C20_SelectionOrderIrrelevant ==
  (/\ Len(results) = 1
   /\ pair[1].question_id = pair[2].question_id
   /\ SameSelections(pair[1].value, pair[2].value)) =>
     /\ results[1].answers_equal
     /\ results[1].answers_hash_equal
     /\ results[1].states_equal
     /\ results[1].states_hash_equal

\* C21: the State transitions touch only their own component and leave the
\* State they are called on as it was: with_answer returns the old answers
\* with the new one appended and the old flags and obligations, with_flags
\* changes only the flags, with_obligations only the obligations.
C21_TransitionsArePure ==
  [][results' # results =>
       LET r == results'[1]
       IN /\ arg' = arg
          /\ r.op = "with_answer" =>
               /\ r.out.answers = Append(arg.answers, r.input)
               /\ r.out.flags = arg.flags
               /\ r.out.obligations = arg.obligations
          /\ r.op = "with_flags" =>
               /\ r.out.answers = arg.answers
               /\ get_flags_dict(r.out) = r.input
               /\ r.out.obligations = arg.obligations
          /\ r.op = "with_obligations" =>
               /\ r.out.answers = arg.answers
               /\ r.out.flags = arg.flags
               /\ get_obligations_set(r.out) = r.input]_vars

\* with_flags called on a State with answers, a flag and obligations, with a
\* dict that changes the flags.
C21_Witness ==
  /\ Len(results) = 1
  /\ results[1].op = "with_flags"
  /\ arg.answers # <<>>
  /\ arg.flags # <<>>
  /\ arg.obligations # <<>>
  /\ results[1].out.flags # arg.flags
  /\ results[1].out.obligations = arg.obligations

\* The result get_result gives on the shared engine, and the result the
\* answers of session t alone give on an engine of its own.
SharedResult == get_result(engine.current_state, engine.path)

OwnResult(t) ==
  LET own == Replay(sessions[t].own)
  IN get_result(own.current_state, own.path)

\* The number of self.path.append statements session t has executed.
Appended(t) ==
  Len(sessions[t].own)
    + (IF sessions[t].pc \in {"infer", "store_inferred"} THEN 1 ELSE 0)

\* C22: two sessions sharing one engine corrupt each other.  The path of the
\* shared engine holds the appends of both sessions, so as soon as the other
\* session has appended an id, the result a session reads between its calls
\* differs in questions_asked and path_taken from the result its own answers
\* give on an engine of its own.
C22_SharedEngineCorrupts ==
  /\ SharedResult.questions_asked = Appended("A") + Appended("B")
  /\ \A t \in Sessions : \A u \in Sessions \ {t} :
       (sessions[t].pc = "idle" /\ Appended(u) > 0) =>
         /\ SharedResult.questions_asked > OwnResult(t).questions_asked
         /\ SharedResult.path_taken # OwnResult(t).path_taken

\* Both sessions have returned from a call and the result on the shared engine
\* differs from either session's own result in path, count, flags and
\* obligations.
C22_Witness ==
  \A t \in Sessions :
    /\ sessions[t].pc = "idle"
    /\ sessions[t].own # <<>>
    /\ SharedResult.path_taken # OwnResult(t).path_taken
    /\ SharedResult.questions_asked # OwnResult(t).questions_asked
    /\ SharedResult.flags # OwnResult(t).flags
    /\ SharedResult.obligations # OwnResult(t).obligations

\* C23: after the eight answers of the product-manufacturer case
\* (Q2=['product_manufacturer'], Q6=['annex_i_section_a'], Q6A='yes_required')
\* the flags flag_is_product_manufacturer, flag_becomes_provider,
\* flag_is_provider and flag_high_risk are true and the obligations are exactly
\* {obligation_ai_literacy, obligation_provider_high_risk}.
C23_ProductManufacturerIsProvider ==
  calls = TEST_CASES[10].answers =>
    /\ {"flag_is_product_manufacturer", "flag_becomes_provider",
        "flag_is_provider", "flag_high_risk"} \subseteq TrueFlags(Result)
    /\ Result.obligations =
         {"obligation_ai_literacy", "obligation_provider_high_risk"}

\* The State at the end of the first pass of apply_inference_rules(s).
FirstPass(s) ==
  rules_pass(inference_rules, 1,
             [current_state |-> s, changed |-> FALSE]).current_state

\* C24: within one pass a later rule sees the effects of an earlier rule of
\* the same pass: when the answers satisfy a role rule and a high-risk rule,
\* the high-risk obligation of that role is derived at the end of the first
\* pass, whatever flags the State started with; so it is for Q2 containing
\* 'provider' and Q6A='yes_required' with no flags.
C24_LaterRuleSeesEarlier ==
  results # <<>> =>
    LET high_risk == \/ condition("high_risk_annex_i", arg)
                     \/ condition("high_risk_annex_iii", arg)
        example == with_answers(EmptyState,
                     <<Answer("Q2", List(<<"provider">>)),
                       Answer("Q6A", Str("yes_required"))>>)
    IN /\ (condition("provider_ai_literacy", arg) /\ high_risk) =>
             "obligation_provider_high_risk"
                \in get_obligations_set(FirstPass(arg))
       /\ (condition("deployer_ai_literacy", arg) /\ high_risk) =>
             "obligation_deployer_high_risk"
                \in get_obligations_set(FirstPass(arg))
       /\ "obligation_provider_high_risk"
             \in get_obligations_set(FirstPass(example))
       /\ get_obligations_set(FirstPass(arg))
             \subseteq get_obligations_set(results[1])

\* A State with a provider answer and a high-risk answer and neither flags
\* nor obligations, on which apply_inference_rules has run.
C24_Witness ==
  /\ results # <<>>
  /\ arg.flags = <<>>
  /\ arg.obligations = <<>>
  /\ InStr("provider", get_answer(arg, "Q2"))
  /\ get_answer(arg, "Q6B") = Str("yes_significant")
  /\ "obligation_provider_high_risk" \in get_obligations_set(FirstPass(arg))

\* Every answer_question call of the input alphabet.
AnyCalls ==
  UNION {{Answer(q_id, v) : v \in AnswerValues(q_id)} :
           q_id \in QuestionIds \cup {UnknownId}}

\* The states of the engine to look at after a call: the current state, and
\* the state after one more answer_question call on any question, asked next
\* or not, answered before or not.
StatesAfterCall ==
  {engine.current_state}
    \cup {answer_question(engine, a.question_id, a.value).current_state :
            a \in AnyCalls}

\* C25: after every answer_question call flag_high_risk is true exactly when
\* the recorded Q6A answer is 'yes_required' or the recorded Q6B answer is
\* 'yes_significant'; with Q6A='no_or_opt_out' and Q6B='no_significant' it is
\* false whatever Q6 selected.
C25_HighRiskIffAssessment ==
  \A s \in StatesAfterCall :
     /\ get_flag(s, "flag_high_risk") <=>
          \/ get_answer(s, "Q6A") = Str("yes_required")
          \/ get_answer(s, "Q6B") = Str("yes_significant")
     /\ (/\ get_answer(s, "Q6A") = Str("no_or_opt_out")
         /\ get_answer(s, "Q6B") = Str("no_significant"))
          => ~get_flag(s, "flag_high_risk")

\* Q6 selected a high-risk category, Q6A and Q6B were answered in the
\* negative, and the flag is false.
C25_Witness ==
  /\ Selections(get_answer(engine.current_state, "Q6")) # {}
  /\ "none" \notin Selections(get_answer(engine.current_state, "Q6"))
  /\ get_answer(engine.current_state, "Q6A") = Str("no_or_opt_out")
  /\ get_answer(engine.current_state, "Q6B") = Str("no_significant")
  /\ LastCall.question_id = "Q6B"
  /\ ~Flag("flag_high_risk")

\* C26: after every answer_question call obligation_provider_high_risk is in
\* the obligation set exactly when flag_high_risk and flag_is_provider are
\* true, and obligation_deployer_high_risk exactly when flag_high_risk and
\* flag_is_deployer are true, in whatever order the questions were answered.
C26_HighRiskObligationsIffFlags ==
  /\ "obligation_provider_high_risk" \in Obligations <=>
       (Flag("flag_high_risk") /\ Flag("flag_is_provider"))
  /\ "obligation_deployer_high_risk" \in Obligations <=>
       (Flag("flag_high_risk") /\ Flag("flag_is_deployer"))

\* flag_is_provider became true through the becomes_provider rule alone, after
\* the high-risk answer, and the provider obligation is there.
C26_Witness ==
  /\ calls = <<Answer("Q6A", Str("yes_required")),
               Answer("Q8", List(<<"substantial_modification">>))>>
  /\ ~get_flag(prev.current_state, "flag_is_provider")
  /\ Flag("flag_becomes_provider")
  /\ "obligation_provider_high_risk" \in Obligations

\* C27: obligation_fundamental_rights_assessment is in the obligation set
\* only if the recorded Q9 answer is 'yes_public' and flag_high_risk and
\* flag_is_deployer are true, and it is present whenever those three hold
\* after an answer_question call.
C27_FundamentalRightsIffPublicDeployer ==
  \A s \in StatesAfterCall :
     "obligation_fundamental_rights_assessment" \in get_obligations_set(s) <=>
        /\ get_answer(s, "Q9") = Str("yes_public")
        /\ get_flag(s, "flag_high_risk")
        /\ get_flag(s, "flag_is_deployer")

\* Q9 was asked and answered 'yes_public', and the obligation is there.
C27_Witness ==
  /\ calls # <<>>
  /\ LastCall = Answer("Q9", Str("yes_public"))
  /\ get_next_question(prev.current_state) = "Q9"
  /\ "obligation_fundamental_rights_assessment" \in Obligations

\* C28: in every reachable state, whenever flag_is_provider or
\* flag_is_deployer is true, obligation_ai_literacy is in the obligation set.
C28_RoleImpliesAiLiteracy ==
  (Flag("flag_is_provider") \/ Flag("flag_is_deployer"))
    => "obligation_ai_literacy" \in Obligations

\* C29: flag_becomes_provider, flag_is_provider (where Q2 did not set it) and
\* obligation_handover are set exactly when the Q8 answer holds a selection
\* other than 'none'; a Q8 answer of only 'none', as a string or as the list
\* ['none'], sets none of them.
C29_BecomesProviderIffModification ==
  LET q8 == get_answer(engine.current_state, "Q8")
      modified == q8 # NoneVal /\ Selections(q8) # {}
  IN /\ Flag("flag_becomes_provider") <=> modified
     /\ "obligation_handover" \in Obligations <=> modified
     /\ ~InStr("provider", get_answer(engine.current_state, "Q2"))
          => (Flag("flag_is_provider") <=> modified)

\* The indices of the input questions that are not skippable in the initial
\* state, and the place of such a question in a listing by descending score
\* with equal scores in input order.
Kept ==
  {i \in 1..Len(arg.questions) :
     ~Question_is_skippable(arg.questions[i], arg.initial_state)}

Rank(i) ==
  1 + Cardinality({j \in Kept :
        \/ score(arg.questions[j]) > score(arg.questions[i])
        \/ /\ score(arg.questions[j]) = score(arg.questions[i])
           /\ j < i})

\* C30: optimize_question_order returns each input question that is not
\* skippable in initial_state exactly once and no other, ordered by descending
\* score with equal scores in input order; the loop ends after at most one
\* round per input question.
C30_OrderedByScore ==
  results # <<>> =>
    LET ordered == results[1]
    IN /\ Len(ordered) = Cardinality(Kept)
       /\ Len(ordered) <= Len(arg.questions)
       /\ \A i \in Kept : ordered[Rank(i)] = arg.questions[i]
       /\ \A i, j \in 1..Len(ordered) :
            i < j => score(ordered[i]) >= score(ordered[j])

\* A list with a skippable question, two different questions of equal score
\* and a question that moves forward.
C30_Witness ==
  /\ results # <<>>
  /\ Kept # 1..Len(arg.questions)
  /\ \E i, j \in Kept :
       /\ i < j
       /\ arg.questions[i] # arg.questions[j]
       /\ score(arg.questions[i]) = score(arg.questions[j])
  /\ \E i, j \in Kept : i < j /\ Rank(j) < Rank(i)

\* The sum of the numerators of the weights of the answer values in V.
RECURSIVE SumWeights(_, _)
SumWeights(weights, V) ==
  IF V = {} THEN 0
  ELSE LET v == CHOOSE x \in V : TRUE
       IN weights[v][1] + SumWeights(weights, V \ {v})

\* C31: the per-answer subsets of calculate_information_gain partition the
\* state space: two subsets share no position of state_space, together they
\* hold every state of it as often as it occurs, and the weights
\* len(subset)/len(state_space) sum to 1.
C31_PartitionWeightsSumToOne ==
  (results # <<>> /\ arg.state_space # <<>> /\ arg.options # <<>>) =>
    LET r == results[1]
        values == DOMAIN r.answer_distributions
    IN /\ SumWeights(r.weights, values) = Len(arg.state_space)
       /\ \A v \in values : \A w \in values \ {v} :
            \A i \in 1..Len(r.answer_distributions[v]) :
              \A j \in 1..Len(r.answer_distributions[w]) :
                r.answer_distributions[v][i] # r.answer_distributions[w][j]

\* C32: path enumeration ends for every routing table, cyclic or never
\* reaching END: no call is made with a depth above max_depth + 1 and a call
\* with that depth returns at once, every recorded PathResult ends at END and
\* has path_length = len(questions) <= 20, every answer of a recorded path is
\* one a routing rule matched, and the outermost call returns.
C32_EnumerationBounded ==
  /\ [](/\ results.deepest <= max_depth + 1
        /\ Len(results.stack) <= max_depth + 2
        /\ \A n \in 1..Len(results.all_paths) :
             LET p == results.all_paths[n]
             IN /\ p.end_state = "END"
                /\ p.path_length = Len(p.questions)
                /\ p.path_length <= 20
                /\ Len(p.answers) = Len(p.questions)
                /\ \A k \in 1..Len(p.answers) :
                     /\ p.answers[k][1] = p.questions[k]
                     /\ first_match(arg[p.questions[k]].routing,
                                    p.answers[k][2], <<>>) # <<>>)
  /\ <>(results.stack = <<>>)

\* A cyclic table after the enumeration: a path of 20 questions was recorded,
\* a call at depth 21 was cut off, and Q1 has an answer no rule matches.
C32_Witness ==
  /\ results.stack = <<>>
  /\ results.deepest = max_depth + 1
  /\ \E n \in 1..Len(results.all_paths) :
       results.all_paths[n].path_length = 20
  /\ first_match(arg["Q1"].routing, 2, <<>>) = <<>>

\* A State in which every rule of the catalogue whose predicate holds has
\* all its flag effects set and all its obligation effects present.
FixedPoint(s) ==
  \A i \in 1..Len(inference_rules) :
     condition(inference_rules[i].name, s) =>
        \A j \in 1..Len(inference_rules[i].effects) :
           LET key == inference_rules[i].effects[j][1]
               value == inference_rules[i].effects[j][2]
           IN /\ key \in FlagNames =>
                   /\ key \in DOMAIN get_flags_dict(s)
                   /\ get_flags_dict(s)[key] = value
              /\ key \in ObligationNames => key \in get_obligations_set(s)

\* C33: with the rule catalogue the 10-pass cap never stops inference: the
\* state the engine holds is a fixed point, and the inference of any further
\* answer_question call ends after at most 3 passes with a pass that changed
\* nothing, in a fixed point.
C33_ConvergesWithinThreePasses ==
  /\ FixedPoint(engine.current_state)
  /\ \A a \in AnyCalls :
       LET r == run_inference(inference_rules,
                              with_answer(engine.current_state, a))
       IN /\ r.iteration <= 3
          /\ ~r.changed
          /\ FixedPoint(r.current_state)

\* A call whose inference took three passes: the second pass derived the
\* provider obligation from the flag the first pass set.
C33_Witness ==
  /\ calls # <<>>
  /\ LastCall.question_id = "Q8"
  /\ run_inference(inference_rules,
                   with_answer(prev.current_state, LastCall)).iteration = 3
  /\ "obligation_provider_high_risk" \in Obligations

\* C34: flags are monotone within an assessment: a flag that was true before
\* an answer_question call is true after it, and no reachable state holds a
\* flag with the value false.
C34_FlagsMonotone ==
  /\ \A n \in FlagNames : get_flag(prev.current_state, n) => Flag(n)
  /\ \A i \in 1..Len(engine.current_state.flags) :
        engine.current_state.flags[i][2] = TRUE

\* A second call that kept the flag of the first and added another.
C34_Witness ==
  /\ Len(calls) = 2
  /\ \E n \in FlagNames : get_flag(prev.current_state, n)
  /\ \E n \in FlagNames : ~get_flag(prev.current_state, n) /\ Flag(n)

\* The place of a classification in the priority order of get_result.
Priority(result) ==
  CASE result = "OUT_OF_SCOPE" -> 1
    [] result = "EXCLUDED" -> 2
    [] result = "PROHIBITED" -> 3
    [] result = "COMPLIANCE_REQUIRED" -> 4

\* C35: across an answer_question call the classification never moves down
\* the priority order OUT_OF_SCOPE, EXCLUDED, PROHIBITED, COMPLIANCE_REQUIRED,
\* and when get_next_question returned None because of a terminal flag before
\* the call it returns None after it.
C35_ClassificationOnlyMovesUp ==
  /\ Priority(Result.result) <= Priority(ResultBefore.result)
  /\ (\E n \in {"flag_out_of_scope", "flag_excluded", "flag_prohibited"} :
         get_flag(prev.current_state, n))
       => /\ get_next_question(prev.current_state) = "None"
          /\ NextQuestion = "None"

\* A call that moved the classification up from PROHIBITED or EXCLUDED, after
\* which there is still no next question.
C35_Witness ==
  /\ Len(calls) = 2
  /\ ResultBefore.result \in {"EXCLUDED", "PROHIBITED"}
  /\ Priority(Result.result) < Priority(ResultBefore.result)
  /\ NextQuestion = "None"

\* The orders of n calls, and a list of answers in such an order.
Orders(n) ==
  {f \in [1..n -> 1..n] : \A i, j \in 1..n : i # j => f[i] # f[j]}

InOrder(as, f) == [i \in 1..Len(as) |-> as[f[i]]]

\* C36: the derived facts do not depend on the order of the answers: after the
\* calls for a list of answers to pairwise distinct question ids, a fresh
\* engine given the same calls in any other order reports the same flags,
\* obligations and classification, and a path_taken in that other order.
C36_OrderIndependent ==
  calls = arg =>
    \A f \in Orders(Len(arg)) :
       LET other == Replay(InOrder(arg, f))
           r == get_result(other.current_state, other.path)
       IN /\ r.flags = Result.flags
          /\ r.obligations = Result.obligations
          /\ r.result = Result.result
          /\ r.path_taken = [i \in 1..Len(arg) |-> arg[f[i]].question_id]

\* Three answers whose order decides in which call, and in which pass, the
\* provider obligation is derived: Q8 last here, Q8 first in another order.
C36_Witness ==
  /\ calls = arg
  /\ Len(arg) = 3
  /\ arg[3].question_id = "Q8"
  /\ "obligation_provider_high_risk" \in Obligations
  /\ "obligation_provider_high_risk"
        \notin get_obligations_set(prev.current_state)

\* The place of a question id in the master order.
OrderIndex(q_id) == CHOOSE i \in 1..Len(question_order) : question_order[i] = q_id

\* C37: a caller that always answers the question get_next_question returned
\* is asked questions in strictly increasing master order: the ids answered
\* so far increase, the question returned next comes after all of them (so it
\* is neither answered nor before an answered one), and no session has more
\* than 12 answers.
C37_AskedInMasterOrder ==
  /\ Len(calls) <= Len(question_order)
  /\ \A i, j \in 1..Len(calls) :
        i < j => OrderIndex(calls[i].question_id) < OrderIndex(calls[j].question_id)
  /\ NextQuestion # "None" =>
        \A i \in 1..Len(calls) :
           OrderIndex(calls[i].question_id) < OrderIndex(NextQuestion)

\* A session that skipped Q5A and went through both later follow-ups Q8 and
\* Q9 before get_next_question returned None.
C37_Witness ==
  /\ Len(calls) >= 9
  /\ LastCall.question_id = "Q9"
  /\ \E i \in 1..Len(calls) : calls[i].question_id = "Q8"
  /\ \A i \in 1..Len(calls) : calls[i].question_id # "Q5A"
  /\ NextQuestion = "None"

\* Whether Q6 was answered with an Annex III category.
AnnexIIIAnswered ==
  LET a == get_answer(engine.current_state, "Q6")
  IN /\ a # NoneVal
     /\ \E i \in 1..Len(a.items) :
           a.items[i] \in AnnexTokens \ {"annex_i_section_a", "annex_i_section_b"}

\* C38: every question of the master order can be asked, Q6B in particular:
\* in a session where Q6 was answered with an Annex III category and the
\* latest answer was given to Q6 or Q6A, get_next_question has not moved
\* past Q6B: it returns Q6A or Q6B, and Q6B once Q6A is answered.
C38_Q6BAskedAfterAnnexIII ==
  (/\ calls # <<>>
   /\ LastCall.question_id \in {"Q6", "Q6A"}
   /\ AnnexIIIAnswered) =>
     /\ NextQuestion \in {"Q6A", "Q6B"}
     /\ (LastCall.question_id = "Q6A" => NextQuestion = "Q6B")

\* The list a held result's path_taken refers to, as it reads now.
path_taken_now(r) == results.lists[r.path_taken]

\* C39: a ComplianceResult is a snapshot: for every result get_result ever
\* returned, questions_asked = len(path_taken) keeps holding however the
\* engine is used afterwards.
C39_ResultIsSnapshot ==
  \A i \in 1..Len(results.held) :
     results.held[i].questions_asked = Len(path_taken_now(results.held[i]))

====
